---------------------------- MODULE Spec2Model ----------------------------
(***************************************************************************)
(* The engine loader of searx/engines/__init__.py as a state machine.      *)
(*                                                                         *)
(* State: the three module-level tables (engines, engine_shortcuts,        *)
(* categories), the configuration dictionaries of settings['engines']      *)
(* (Python objects that load_engine mutates in place), the deployment      *)
(* settings, and the position of load_engines in its loop.                 *)
(***************************************************************************)
EXTENDS Integers, Sequences, FiniteSets, TLC

(***************************************************************************)
(* Python values.  A value carries its runtime type, because the code      *)
(* tests it (isinstance(v, str), v is None).  A str is a sequence of       *)
(* pieces whose concatenation is the text: engine names are written one    *)
(* character per piece, a comma-delimited categories string one token per  *)
(* piece, so that lower(), "'_' in", split(',') and strip() are computed.  *)
(***************************************************************************)
PyNone == [t |-> "NoneType"]
PyStr(pieces) == [t |-> "str", v |-> pieces]
PyBool(b) == [t |-> "bool", v |-> b]
PyNum(n) == [t |-> "float", v |-> n]
PyList(l) == [t |-> "list", v |-> l]
PyDict(d) == [t |-> "dict", v |-> d]
PyLogger(name) == [t |-> "Logger", v |-> name]

S(piece) == PyStr(<<piece>>)
IsNone(x) == x.t = "NoneType"
IsStr(x) == x.t = "str"

\* dict.get(key): None when the key is absent
Get(d, key) == IF key \in DOMAIN d THEN d[key] ELSE PyNone
\* setattr(ns, attr, value) / d[key] = value
SetAttr(ns, attr, value) ==
    [a \in DOMAIN ns \cup {attr} |-> IF a = attr THEN value ELSE ns[a]]
\* {**d1, **d2}
DictMerge(d1, d2) ==
    [k \in DOMAIN d1 \cup DOMAIN d2 |-> IF k \in DOMAIN d2 THEN d2[k] ELSE d1[k]]
\* x in list
InList(x, l) == \E i \in 1..Len(l) : l[i] = x

\* str.lower(), piece by piece
LowerPiece(c) ==
    CASE c = "A" -> "a"
      [] c = "B" -> "b"
      [] OTHER -> c
Lower(pieces) == [i \in 1..Len(pieces) |-> LowerPiece(pieces[i])]

\* str.strip(): leading and trailing blanks removed
RECURSIVE LStrip(_)
LStrip(p) == IF p # <<>> /\ p[1] = " " THEN LStrip(Tail(p)) ELSE p
RECURSIVE RStrip(_)
RStrip(p) ==
    IF p # <<>> /\ p[Len(p)] = " " THEN RStrip(SubSeq(p, 1, Len(p) - 1)) ELSE p
Strip(p) == RStrip(LStrip(p))

\* str.split(sep): the parts between the separators (always at least one part)
RECURSIVE SplitFrom(_, _, _)
SplitFrom(p, sep, cur) ==
    IF p = <<>> THEN <<cur>>
    ELSE IF p[1] = sep THEN <<cur>> \o SplitFrom(Tail(p), sep, <<>>)
    ELSE SplitFrom(Tail(p), sep, Append(cur, p[1]))
Split(p, sep) == SplitFrom(p, sep, <<>>)
\* list(map(str.strip, value.split(',')))
SplitStrip(pieces) ==
    LET parts == Split(pieces, ",")
    IN  [i \in 1..Len(parts) |-> PyStr(Strip(parts[i]))]
\* str.startswith(prefix)
StartsWith(p, prefix) ==
    Len(prefix) <= Len(p) /\ SubSeq(p, 1, Len(prefix)) = prefix

(***************************************************************************)
(* Settings of the deployment (settings.yml) that the loader reads.        *)
(***************************************************************************)
request_timeout == 3
extra_proxy_timeout == 10
categories_as_tabs == {S("general"), S("images")}
OTHER_CATEGORY == S("other")

ENGINE_DEFAULT_ARGS ==
    [engine_type |-> S("online"),
     inactive |-> PyBool(FALSE),
     disabled |-> PyBool(FALSE),
     timeout |-> PyNum(request_timeout),
     shortcut |-> S("-"),
     categories |-> PyList(<<S("general")>>),
     language_support |-> PyBool(FALSE),
     paging |-> PyBool(FALSE),
     safesearch |-> PyBool(FALSE),
     time_range_support |-> PyBool(FALSE),
     enable_http |-> PyBool(FALSE),
     using_tor_proxy |-> PyBool(FALSE),
     display_error_messages |-> PyBool(TRUE),
     send_accept_language_header |-> PyBool(FALSE),
     tokens |-> PyList(<<>>),
     about |-> PyDict(<<>>)]

(***************************************************************************)
(* The provider modules of ENGINE_DIR.  load_module executes the file and  *)
(* returns a fresh namespace on every call, or raises.  A module namespace *)
(* always has the private attribute __doc__, None without a docstring.     *)
(***************************************************************************)
dummy_module == [__doc__ |-> PyNone]
images_module ==
    [__doc__ |-> PyNone,
     categories |-> PyList(<<S("images")>>),
     paging |-> PyBool(TRUE),
     timeout |-> PyNum(5),
     about |-> PyDict([website |-> S("w"), results |-> S("HTML")])]
onion_module ==
    [__doc__ |-> PyNone,
     categories |-> PyList(<<S("onions")>>),
     search_url |-> S("https://clear/q"),
     onion_url |-> S("http://x.onion"),
     search_path |-> S("/q")]
needs_url_module ==
    [__doc__ |-> PyNone,
     base_url |-> PyNone]
legacy_module ==
    [__doc__ |-> S("legacy"),
     supported_languages_url |-> S("https://legacy/langs")]

\* what executing <engine_module>.py does: the exception classes it may raise
\* (none when it loads), and the namespace it builds
ModuleRaises(engine_module) ==
    CASE engine_module = S("broken") ->
             {"SyntaxError", "ModuleNotFoundError", "NotImplementedError",
              "SystemExit", "KeyboardInterrupt", "SystemError"}
      [] engine_module = S("flaky") ->
             {"ValueError", "FileNotFoundError", "GeneratorExit"}
      [] OTHER -> {}
load_module(engine_module) ==
    CASE engine_module = S("images") -> images_module
      [] engine_module = S("onion") -> onion_module
      [] engine_module = S("needs_url") -> needs_url_module
      [] engine_module = S("legacy") -> legacy_module
      [] OTHER -> dummy_module

\* the classes an exception is an instance of (its method resolution order)
Mro(exc) ==
    CASE exc = "ModuleNotFoundError" ->
             {"ModuleNotFoundError", "ImportError", "Exception", "BaseException"}
      [] exc = "NotImplementedError" ->
             {"NotImplementedError", "RuntimeError", "Exception", "BaseException"}
      [] exc = "FileNotFoundError" ->
             {"FileNotFoundError", "OSError", "Exception", "BaseException"}
      [] exc \in {"SystemExit", "KeyboardInterrupt", "GeneratorExit"} ->
             {exc, "BaseException"}
      [] OTHER -> {exc, "Exception", "BaseException"}
\* except (SyntaxError, KeyboardInterrupt, SystemExit, SystemError, ImportError, RuntimeError)
FatalClasses ==
    {"SyntaxError", "KeyboardInterrupt", "SystemExit", "SystemError",
     "ImportError", "RuntimeError"}
\* a handler that matched the listed classes only, not their subclasses
IsFatalExactClass(exc) == exc \in FatalClasses
IsFatal(exc) == Mro(exc) \cap FatalClasses # {}

(***************************************************************************)
(* Language data.  ENGINES_LANGUAGES is keyed by engine name (or module    *)
(* name); a language code is a str with one piece per subtag or hyphen.    *)
(***************************************************************************)
Code1(l) == PyStr(<<l>>)
Code2(l, r) == PyStr(<<l, "-", r>>)
BABEL_LANGS == <<Code1("de"), Code2("de", "AT"), Code1("en"), Code2("en", "US"), Code2("pt", "BR")>>
ENGINES_LANGUAGES_keys == {S("legacy"), S("w"), S("v")}
ENGINES_LANGUAGES(key) ==
    CASE key = S("legacy") ->
             PyList(<<Code1("de"), Code2("en", "US"), Code1("pt"), Code1("jp")>>)
      [] key = S("v") ->
             PyList(<<Code1("pt"), Code2("pt", "PT"), Code1("de")>>)
      [] key = S("w") ->
             PyDict([type |-> S("engine_properties"),
                     languages |-> PyDict([de |-> S("German")]),
                     regions |-> PyDict(<<>>)])

\* searx.utils._match_language without custom aliases: the code itself when
\* listed, else the first listed code of that language
MatchListed(code, lang_list) ==
    IF InList(code, lang_list) THEN code
    ELSE LET hits == {i \in 1..Len(lang_list) :
                         Split(lang_list[i].v, "-")[1] = code.v}
         IN  IF hits = {} THEN PyNone
             ELSE lang_list[CHOOSE i \in hits : \A j \in hits : i <= j]
\* searx.utils.match_language(locale_code, lang_list, fallback=None)
match_language(locale_code, lang_list) ==
    LET first == MatchListed(locale_code, lang_list)
        parts == Split(locale_code.v, "-")
        lang_code == PyStr(parts[1])
        noscript == IF Len(parts) > 2
                    THEN MatchListed(PyStr(parts[1] \o <<"-">> \o parts[Len(parts)]), lang_list)
                    ELSE PyNone
    IN  IF ~IsNone(first) THEN first
        ELSE IF ~IsNone(noscript) THEN noscript
        ELSE MatchListed(lang_code, lang_list)

(***************************************************************************)
(* load_engine and the functions it calls, on namespaces (attribute name   *)
(* -> value; hasattr is membership in the domain).                         *)
(***************************************************************************)
HasAttr(ns, attr) == attr \in DOMAIN ns

\* one pass of "for param_name, param_value in engine_data.items()"
ConfiguredValue(engine, engine_data, param_name) ==
    LET param_value == engine_data[param_name]
    IN  IF param_name = "categories"
        THEN IF IsStr(param_value) THEN PyList(SplitStrip(param_value.v))
             ELSE param_value
        ELSE IF HasAttr(engine, "about") /\ param_name = "about"
        THEN PyDict(DictMerge(engine["about"].v, param_value.v))
        ELSE param_value

\* a merge that set the defaults without asking hasattr first
update_engine_attributes_defaults_first(engine, engine_data) ==
    [a \in DOMAIN engine \cup DOMAIN engine_data \cup DOMAIN ENGINE_DEFAULT_ARGS |->
        IF a \in DOMAIN engine_data THEN ConfiguredValue(engine, engine_data, a)
        ELSE IF a \in DOMAIN ENGINE_DEFAULT_ARGS THEN ENGINE_DEFAULT_ARGS[a]
        ELSE engine[a]]

update_engine_attributes(engine, engine_data) ==
    LET configured ==
            [a \in DOMAIN engine \cup DOMAIN engine_data |->
                IF a \in DOMAIN engine_data
                THEN ConfiguredValue(engine, engine_data, a)
                ELSE engine[a]]
    IN  [a \in DOMAIN configured \cup DOMAIN ENGINE_DEFAULT_ARGS |->
            IF HasAttr(configured, a) THEN configured[a]
            ELSE ENGINE_DEFAULT_ARGS[a]]

\* the supported_properties that set_language_attributes picks
SupportedProperties(engine) ==
    IF engine["name"] \in ENGINES_LANGUAGES_keys
    THEN ENGINES_LANGUAGES(engine["name"])
    ELSE IF engine["engine"] \in ENGINES_LANGUAGES_keys
    THEN ENGINES_LANGUAGES(engine["engine"])
    ELSE PyNone

\* a search for aliases that keeps the first code found for a canonical code
RECURSIVE FindAliasesFirstWins(_, _, _)
FindAliasesFirstWins(langs, supported, aliases) ==
    IF langs = <<>> THEN aliases
    ELSE FindAliasesFirstWins(
             Tail(langs), supported,
             IF /\ ~IsNone(match_language(langs[1], BABEL_LANGS))
                /\ match_language(langs[1], BABEL_LANGS) # langs[1]
                /\ ~StartsWith(langs[1].v, match_language(langs[1], BABEL_LANGS).v)
                /\ ~InList(match_language(langs[1], BABEL_LANGS), supported)
                /\ match_language(langs[1], BABEL_LANGS) \notin DOMAIN aliases
             THEN SetAttr(aliases, match_language(langs[1], BABEL_LANGS), langs[1])
             ELSE aliases)
\* "for engine_lang in engine.supported_languages": the aliases found, later
\* codes overwriting earlier ones
RECURSIVE FindAliases(_, _, _)
FindAliases(langs, supported, aliases) ==
    IF langs = <<>> THEN aliases
    ELSE LET engine_lang == langs[1]
             iso_lang == match_language(engine_lang, BABEL_LANGS)
             found == /\ ~IsNone(iso_lang)
                      /\ iso_lang # engine_lang
                      /\ ~StartsWith(engine_lang.v, iso_lang.v)
                      /\ ~InList(iso_lang, supported)
         IN  FindAliases(Tail(langs), supported,
                         IF found THEN SetAttr(aliases, iso_lang, engine_lang)
                         ELSE aliases)

\* a narrowing that took the configured language without the membership test
set_language_attributes_unchecked(engine) ==
    IF /\ ~IsNone(SupportedProperties(engine))
       /\ SupportedProperties(engine).t = "list"
       /\ SupportedProperties(engine).v # <<>>
    THEN [raise |-> "",
          engine |-> SetAttr(SetAttr(SetAttr(engine, "supported_languages",
                                 PyList(IF HasAttr(engine, "language")
                                        THEN <<engine["language"]>>
                                        ELSE SupportedProperties(engine).v)),
                             "language_support", PyBool(TRUE)),
                             "language_aliases", PyDict(<<>>))]
    ELSE [raise |-> "", engine |-> engine]

\* the result is [raise |-> exception class or "", engine |-> namespace]
set_language_attributes(engine) ==
    LET supported_properties == SupportedProperties(engine)
        falsy == \/ IsNone(supported_properties)
                 \/ supported_properties.t = "list" /\ supported_properties.v = <<>>
        structured == /\ supported_properties.t = "dict"
                      /\ "type" \in DOMAIN supported_properties.v
                      /\ supported_properties.v["type"] = S("engine_properties")
    IN  IF falsy THEN [raise |-> "", engine |-> engine]
        ELSE IF structured
        THEN [raise |-> "",
              engine |->
                  SetAttr(SetAttr(engine, "supported_properties", supported_properties),
                          "language_support",
                          PyBool(\/ DOMAIN supported_properties.v["languages"].v # {}
                                 \/ DOMAIN supported_properties.v["regions"].v # {}))]
        ELSE LET langs == supported_properties.v
                 unsupported == /\ HasAttr(engine, "language")
                                /\ ~InList(engine["language"], langs)
                 narrowed == IF HasAttr(engine, "language")
                             THEN <<engine["language"]>> ELSE langs
                 aliases0 == IF HasAttr(engine, "language_aliases")
                             THEN engine["language_aliases"].v ELSE <<>>
                 e1 == SetAttr(engine, "supported_languages", PyList(narrowed))
                 e2 == SetAttr(e1, "language_support", PyBool(Len(langs) > 0))
             IN  IF unsupported THEN [raise |-> "ValueError", engine |-> engine]
                 ELSE [raise |-> "",
                       engine |-> SetAttr(e2, "language_aliases",
                                     PyDict(FindAliases(narrowed, narrowed, aliases0)))]

(***************************************************************************)
(* The configuration: settings['engines'] holds one dictionary per engine. *)
(* The dictionaries are objects: load_engine writes into them, and a       *)
(* reload hands the same objects to load_engine again.                     *)
(***************************************************************************)
Name1(c) == PyStr(<<c>>)
EngineConfigs ==
    << [name |-> Name1("a"), engine |-> S("dummy"), shortcut |-> S("a")],
       [name |-> Name1("A"), engine |-> S("dummy"), shortcut |-> S("x"),
        categories |-> PyList(<<S("foo")>>)],
       [name |-> Name1("b"), engine |-> S("images"), shortcut |-> S("a"),
        about |-> PyDict([website |-> S("b.org"), wikidata_id |-> S("Q1")]),
        timeout |-> PyNum(7)],
       [name |-> Name1("c"), engine |-> S("dummy"),
        categories |-> PyStr(<<"foo", ",", " ", "bar">>)],
       [name |-> Name1("d"), engine |-> S("images")],
       [name |-> Name1("o"), engine |-> S("onion"), shortcut |-> S("o")],
       [name |-> Name1("t"), engine |-> S("onion"), shortcut |-> S("t"),
        using_tor_proxy |-> PyBool(TRUE),
        categories |-> PyStr(<<"onions", ",", "general">>)],
       [name |-> PyStr(<<"a", "_", "b">>), engine |-> S("dummy"), shortcut |-> S("u")],
       [engine |-> S("dummy"), shortcut |-> S("q")],
       [name |-> Name1("e"), shortcut |-> S("e")],
       [name |-> Name1("n"), engine |-> S("needs_url"), shortcut |-> S("n")],
       [name |-> Name1("m"), engine |-> S("needs_url"), shortcut |-> S("m"),
        base_url |-> S("http://m"), inactive |-> PyBool(FALSE)],
       [name |-> Name1("f"), engine |-> S("broken"), shortcut |-> S("f")],
       [name |-> Name1("r"), engine |-> S("flaky"), shortcut |-> S("r")],
       [name |-> Name1("i"), engine |-> S("dummy"), shortcut |-> S("i"),
        inactive |-> PyBool(TRUE)],
       [name |-> Name1("l"), engine |-> S("legacy"), shortcut |-> S("l"),
        language |-> Code1("fr")],
       [name |-> Name1("g"), engine |-> S("legacy"), shortcut |-> S("g")],
       [name |-> Name1("w"), engine |-> S("dummy"), shortcut |-> S("w"),
        categories |-> PyList(<<S("general"), S("web")>>)],
       [name |-> Name1("v"), engine |-> S("dummy"), shortcut |-> S("v")] >>

MaxListLen == 2
MaxLoads == 2

\* the engine lists a caller may pass: configured engines, in settings order
RECURSIVE Increasing(_)
Increasing(l) == Len(l) < 2 \/ (l[1] < l[2] /\ Increasing(Tail(l)))
EngineLists ==
    {l \in UNION {[1..n -> 1..Len(EngineConfigs)] : n \in 0..MaxListLen} : Increasing(l)}

VARIABLES
    settings,           \* settings['outgoing']
    settings_engines,   \* the configuration dictionaries (objects, mutated in place)
    engines,            \* name -> engine namespace
    engine_shortcuts,   \* shortcut -> name
    categories,         \* category -> list of engine namespaces
    engine_list,        \* load_engines' argument: indices into settings_engines
    idx,                \* position of the for loop in engine_list
    engine,             \* the local variable engine of load_engine / load_engines
    pc,                 \* where the loader is
    logged,             \* what the current step logged or raised
    nloads,             \* completed calls of load_engines
    seen,               \* what a concurrent reader's lookup has just read
    published,          \* the tables as the last completed load_engines left them
    call_configs,       \* the configuration as the running load_engines received it
    likely_subtags,     \* babel's get_global('likely_subtags')
    apc,                \* where update_languages.py is
    fetch_names,        \* fetch_supported_languages: names, the sorted engine names
    fidx,               \* position of a for loop over engine names
    cidx,               \* position of join_language_lists' loop over engine_codes
    engines_languages,  \* the fetched data: an ordered dict, engine name -> value
    fetch_log,          \* the fetch functions called so far, in order
    language_list,      \* join_language_lists' table
    reversed,           \* the alias reversals done so far
    filtered_languages, \* filter_language_list: the languages kept
    filtered_languages_with_countries,  \* filter_language_list's result
    language_codes      \* write_languages_file: the tuple written to languages.py

loader_vars == <<settings, settings_engines, engines, engine_shortcuts, categories,
                 engine_list, idx, engine, pc, logged, nloads>>
reader_vars == <<seen, published, call_configs>>
languages_vars == <<likely_subtags, apc, fetch_names, fidx, cidx, engines_languages, fetch_log,
                    language_list, reversed, filtered_languages,
                    filtered_languages_with_countries, language_codes>>
vars == <<loader_vars, reader_vars, languages_vars>>

\* update_languages.py is not running
languages_not_run ==
    /\ likely_subtags = <<>>
    /\ apc = "off"
    /\ fetch_names = <<>>
    /\ fidx = 1
    /\ cidx = 1
    /\ engines_languages = [keys |-> <<>>, val |-> <<>>]
    /\ fetch_log = <<>>
    /\ language_list = <<>>
    /\ reversed = {}
    /\ filtered_languages = <<>>
    /\ filtered_languages_with_countries = <<>>
    /\ language_codes = <<>>

Truthy(x) ==
    CASE x.t = "NoneType" -> FALSE
      [] x.t = "bool" -> x.v
      [] OTHER -> TRUE

\* a test that looked at the deployment's setting only
using_tor_proxy_settings_only(eng) == Truthy(Get(settings, "using_tor_proxy"))

using_tor_proxy(eng) ==
    \/ Truthy(Get(settings, "using_tor_proxy"))
    \/ Truthy(IF HasAttr(eng, "using_tor_proxy") THEN eng["using_tor_proxy"]
              ELSE PyBool(FALSE))

\* a rewrite that adds the extra timeout twice
update_attributes_for_tor_twice(eng) ==
    IF using_tor_proxy(eng) /\ HasAttr(eng, "onion_url")
    THEN SetAttr(SetAttr(eng, "search_url",
                         PyStr(eng["onion_url"].v
                               \o (IF HasAttr(eng, "search_path") THEN eng["search_path"].v
                                   ELSE <<>>))),
                 "timeout",
                 PyNum(eng["timeout"].v
                       + 2 * (IF HasAttr(settings, "extra_proxy_timeout")
                              THEN settings["extra_proxy_timeout"].v ELSE 0)))
    ELSE eng
update_attributes_for_tor(eng) ==
    IF using_tor_proxy(eng) /\ HasAttr(eng, "onion_url")
    THEN LET search_path == IF HasAttr(eng, "search_path") THEN eng["search_path"].v
                            ELSE <<>>
             extra == IF HasAttr(settings, "extra_proxy_timeout")
                      THEN settings["extra_proxy_timeout"].v ELSE 0
         IN  SetAttr(SetAttr(eng, "search_url", PyStr(eng["onion_url"].v \o search_path)),
                     "timeout", PyNum(eng["timeout"].v + extra))
    ELSE eng

\* attribute names that start with an underscore
PrivateAttrs == {"__doc__", "__name__", "_secret"}
\* a check with the underscore test inverted
is_missing_private_attributes(eng) ==
    \E engine_attr \in DOMAIN eng :
        engine_attr \in PrivateAttrs /\ IsNone(eng[engine_attr])
is_missing_required_attributes(eng) ==
    \E engine_attr \in DOMAIN eng :
        engine_attr \notin PrivateAttrs /\ IsNone(eng[engine_attr])

is_engine_active(eng) ==
    IF eng["inactive"] = PyBool(TRUE) THEN FALSE
    ELSE IF InList(S("onions"), eng["categories"].v) /\ ~using_tor_proxy(eng) THEN FALSE
    ELSE TRUE

set_loggers(eng, engine_name) == SetAttr(eng, "logger", PyLogger(engine_name))

(***************************************************************************)
(* load_engine, in two halves: up to the merge of the attributes (lines    *)
(* 109-136), and from the language attributes to the return (137-151).     *)
(* exc is the exception load_module raises, "" when the module loads.      *)
(* A result names how the function ends: "engine" (goes on or returns the  *)
(* engine), "none" (returns None), "exit" (sys.exit(1)), "raise" (an       *)
(* exception leaves load_engine); engine_data is the dictionary as the     *)
(* call leaves it.                                                         *)
(***************************************************************************)
\* a name check that looked at the first character only
StartsWithUnderscore(pieces) == pieces # <<>> /\ pieces[1] = "_"
\* '_' in engine_name
HasUnderscore(pieces) == \E i \in 1..Len(pieces) : pieces[i] = "_"

LoadResult(kind, log, engine_data, eng) ==
    [kind |-> kind, log |-> log, engine_data |-> engine_data, engine |-> eng]

load_engine_merge(engine_data, exc) ==
    LET engine_name == Get(engine_data, "name")
    IN  IF IsNone(engine_name)
        THEN LoadResult("none", "no name", engine_data, PyNone)
        ELSE IF HasUnderscore(engine_name.v)
        THEN LoadResult("none", "underscore", engine_data, PyNone)
        ELSE LET lowered == PyStr(Lower(engine_name.v))
                 data == IF lowered # engine_name
                         THEN SetAttr(engine_data, "name", lowered)
                         ELSE engine_data
                 engine_module == Get(data, "engine")
             IN  IF IsNone(engine_module)
                 THEN LoadResult("none", "no engine", data, PyNone)
                 ELSE IF exc # "" /\ IsFatal(exc)
                 THEN LoadResult("exit", exc, data, PyNone)
                 ELSE IF exc # ""
                 THEN LoadResult("none", exc, data, PyNone)
                 ELSE LoadResult("engine", "", data,
                          update_engine_attributes(load_module(engine_module), data))

\* lines 148-151: the "other" category of an engine without tab category.
\* engine.categories is the list object of engine_data when the configuration
\* gave a list, and append() changes that one object
AppendOther(engine_data, eng) ==
    IF ~\E i \in 1..Len(eng["categories"].v) : eng["categories"].v[i] \in categories_as_tabs
    THEN LoadResult("engine", "",
                    IF HasAttr(engine_data, "categories") /\ ~IsStr(engine_data["categories"])
                    THEN SetAttr(engine_data, "categories",
                                 PyList(Append(eng["categories"].v, OTHER_CATEGORY)))
                    ELSE engine_data,
                    SetAttr(eng, "categories",
                            PyList(Append(eng["categories"].v, OTHER_CATEGORY))))
    ELSE LoadResult("engine", "", engine_data, eng)

\* lines 140-146
CheckEngine(engine_data, eng) ==
    IF ~is_engine_active(eng)
    THEN LoadResult("none", "inactive", engine_data, PyNone)
    ELSE IF is_missing_required_attributes(eng)
    THEN LoadResult("none", "missing attribute", engine_data, PyNone)
    ELSE AppendOther(engine_data, set_loggers(eng, eng["name"]))

\* lines 137-138; lang is the outcome of set_language_attributes
AfterLanguage(engine_data, lang) ==
    IF lang.raise # ""
    THEN LoadResult("raise", lang.raise, engine_data, PyNone)
    ELSE CheckEngine(engine_data, update_attributes_for_tor(lang.engine))

load_engine_finish(engine_data, merged) ==
    AfterLanguage(engine_data, set_language_attributes(merged))

(***************************************************************************)
(* register_engine on the three tables.  exit: sys.exit(1) was called; the *)
(* tables are as the call leaves them.                                     *)
(***************************************************************************)
Tables(e, s, c) == [engines |-> e, engine_shortcuts |-> s, categories |-> c]

\* a registration under the first category only
AppendToCategoriesFirstOnly(cats, names, eng) ==
    IF names = <<>> THEN cats
    ELSE SetAttr(cats, names[1],
                 Append(IF names[1] \in DOMAIN cats THEN cats[names[1]] ELSE <<>>, eng))
\* for category_name in engine.categories:
\*     categories.setdefault(category_name, []).append(engine)
RECURSIVE AppendToCategories(_, _, _)
AppendToCategories(cats, names, eng) ==
    IF names = <<>> THEN cats
    ELSE LET c == names[1]
             old == IF c \in DOMAIN cats THEN cats[c] ELSE <<>>
         IN  AppendToCategories(SetAttr(cats, c, Append(old, eng)), Tail(names), eng)

\* a registration without the shortcut check
register_engine_unchecked_shortcut(tables, eng) ==
    IF eng["name"] \in DOMAIN tables.engines
    THEN [exit |-> TRUE, log |-> "ambiguous name", tables |-> tables]
    ELSE [exit |-> FALSE, log |-> "",
          tables |->
              Tables(SetAttr(tables.engines, eng["name"], eng),
                     SetAttr(tables.engine_shortcuts, eng["shortcut"], eng["name"]),
                     AppendToCategories(tables.categories, eng["categories"].v, eng))]

register_engine(tables, eng) ==
    IF eng["name"] \in DOMAIN tables.engines
    THEN [exit |-> TRUE, log |-> "ambiguous name", tables |-> tables]
    ELSE LET named == SetAttr(tables.engines, eng["name"], eng)
         IN  IF eng["shortcut"] \in DOMAIN tables.engine_shortcuts
             THEN [exit |-> TRUE, log |-> "ambiguous shortcut",
                   tables |-> [tables EXCEPT !.engines = named]]
             ELSE [exit |-> FALSE, log |-> "",
                   tables |->
                       Tables(named,
                              SetAttr(tables.engine_shortcuts, eng["shortcut"], eng["name"]),
                              AppendToCategories(tables.categories, eng["categories"].v, eng))]

(***************************************************************************)
(* load_engines, statement by statement.                                   *)
(***************************************************************************)
Registry == Tables(engines, engine_shortcuts, categories)
EmptyRegistry == Tables(<<>>, <<>>, [c \in {S("general")} |-> <<>>])
Nothing == [read |-> FALSE, tables |-> EmptyRegistry]

Init ==
    /\ settings \in {[using_tor_proxy |-> PyBool(b),
                      extra_proxy_timeout |-> PyNum(extra_proxy_timeout)] : b \in BOOLEAN}
    /\ settings_engines = EngineConfigs
    /\ engines = EmptyRegistry.engines
    /\ engine_shortcuts = EmptyRegistry.engine_shortcuts
    /\ categories = EmptyRegistry.categories
    /\ engine_list = <<>>
    /\ idx = 1
    /\ engine = PyNone
    /\ pc = "idle"
    /\ logged = ""
    /\ nloads = 0
    /\ seen = Nothing
    /\ published = EmptyRegistry
    /\ call_configs = EngineConfigs
    /\ languages_not_run

\* load_engines(engine_list), lines 323-326: the three tables are cleared
load_engines_clear ==
    /\ pc = "idle"
    /\ nloads < MaxLoads
    /\ \E l \in EngineLists : engine_list' = l
    /\ engines' = EmptyRegistry.engines
    /\ engine_shortcuts' = EmptyRegistry.engine_shortcuts
    /\ categories' = EmptyRegistry.categories
    /\ idx' = 1
    /\ pc' = "loop"
    /\ logged' = ""
    /\ UNCHANGED <<settings, settings_engines, engine, nloads>>

\* engine = load_engine(engine_data), lines 109-136; the exception that
\* load_module raises is the module's choice
load_engine_call ==
    /\ pc = "loop"
    /\ idx <= Len(engine_list)
    /\ \E i \in {engine_list[idx]} :
       \E exc \in (IF IsNone(Get(settings_engines[i], "engine"))
                      \/ ModuleRaises(Get(settings_engines[i], "engine")) = {}
                   THEN {""}
                   ELSE ModuleRaises(Get(settings_engines[i], "engine"))) :
       \E r \in {load_engine_merge(settings_engines[i], exc)} :
           /\ settings_engines' = [settings_engines EXCEPT ![i] = r.engine_data]
           /\ engine' = r.engine
           /\ logged' = r.log
           /\ pc' = CASE r.kind = "engine" -> "merged"
                      [] r.kind = "exit" -> "exit"
                      [] OTHER -> "loop"
           /\ idx' = IF r.kind = "none" THEN idx + 1 ELSE idx
    /\ UNCHANGED <<settings, engines, engine_shortcuts, categories, engine_list, nloads>>

\* engine = load_engine(engine_data), lines 137-151
load_engine_return ==
    /\ pc = "merged"
    /\ \E i \in {engine_list[idx]} :
       \E r \in {load_engine_finish(settings_engines[i], engine)} :
           /\ settings_engines' = [settings_engines EXCEPT ![i] = r.engine_data]
           /\ engine' = r.engine
           /\ logged' = r.log
           /\ pc' = CASE r.kind = "engine" -> "register"
                      [] r.kind = "raise" -> "raised"
                      [] OTHER -> "loop"
           /\ idx' = IF r.kind = "none" THEN idx + 1 ELSE idx
    /\ UNCHANGED <<settings, engines, engine_shortcuts, categories, engine_list, nloads>>

\* if engine: register_engine(engine)
load_engines_register ==
    /\ pc = "register"
    /\ \E r \in {register_engine(Registry, engine)} :
           /\ engines' = r.tables.engines
           /\ engine_shortcuts' = r.tables.engine_shortcuts
           /\ categories' = r.tables.categories
           /\ logged' = r.log
           /\ pc' = IF r.exit THEN "exit" ELSE "loop"
           /\ idx' = IF r.exit THEN idx ELSE idx + 1
    /\ engine' = PyNone
    /\ UNCHANGED <<settings, settings_engines, engine_list, nloads>>

\* return engines
load_engines_return ==
    /\ pc = "loop"
    /\ idx > Len(engine_list)
    /\ pc' = "idle"
    /\ nloads' = nloads + 1
    /\ logged' = ""
    /\ UNCHANGED <<settings, settings_engines, engines, engine_shortcuts, categories,
                   engine_list, idx, engine>>

\* The loader alone: load_engines runs in one thread and nothing else touches
\* the tables.
Next ==
    \/ load_engines_clear /\ UNCHANGED <<reader_vars, languages_vars>>
    \/ load_engine_call /\ UNCHANGED <<reader_vars, languages_vars>>
    \/ load_engine_return /\ UNCHANGED <<reader_vars, languages_vars>>
    \/ load_engines_register /\ UNCHANGED <<reader_vars, languages_vars>>
    \/ load_engines_return /\ UNCHANGED <<reader_vars, languages_vars>>

Spec == Init /\ [][Next]_vars

(***************************************************************************)
(* The loader with a reader beside it: a query-time lookup in another      *)
(* thread reads the three module-level tables between two statements of    *)
(* load_engines.  published and call_configs remember what the lookup is   *)
(* compared with.                                                          *)
(***************************************************************************)
reader_lookup ==
    /\ pc \notin {"exit", "raised"}
    /\ ~seen.read
    /\ seen' = [read |-> TRUE, tables |-> Registry]
    /\ UNCHANGED <<loader_vars, published, call_configs, languages_vars>>

NextReader ==
    \/ reader_lookup
    \/ load_engines_clear /\ call_configs' = settings_engines
                          /\ seen' = Nothing /\ UNCHANGED <<published, languages_vars>>
    \/ load_engine_call /\ seen' = Nothing
                          /\ UNCHANGED <<published, call_configs, languages_vars>>
    \/ load_engine_return /\ seen' = Nothing
                          /\ UNCHANGED <<published, call_configs, languages_vars>>
    \/ load_engines_register /\ seen' = Nothing
                          /\ UNCHANGED <<published, call_configs, languages_vars>>
    \/ load_engines_return /\ published' = Registry
                           /\ seen' = Nothing /\ UNCHANGED <<call_configs, languages_vars>>

SpecReader == Init /\ [][NextReader]_vars

(***************************************************************************)
(* What a whole load_engines(list) builds from given configuration         *)
(* dictionaries, starting from cleared tables: the loop of lines 327-330   *)
(* run to its end.  completed is FALSE when the call ends in sys.exit or   *)
(* in an exception.                                                        *)
(***************************************************************************)
AnyRaise(engine_data) ==
    IF IsNone(Get(engine_data, "engine")) \/ ModuleRaises(Get(engine_data, "engine")) = {}
    THEN ""
    ELSE CHOOSE exc \in ModuleRaises(Get(engine_data, "engine")) : TRUE

RECURSIVE LoadFrom(_, _, _, _)
RECURSIVE LoadMerged(_, _, _, _, _)
RECURSIVE LoadFinished(_, _, _, _, _)
RECURSIVE LoadRegistered(_, _, _, _)
LoadFrom(configs, list, k, tables) ==
    IF k > Len(list) THEN [completed |-> TRUE, tables |-> tables]
    ELSE LoadMerged(configs, list, k, tables,
                    load_engine_merge(configs[list[k]], AnyRaise(configs[list[k]])))
LoadMerged(configs, list, k, tables, r) ==
    IF r.kind = "exit" THEN [completed |-> FALSE, tables |-> tables]
    ELSE IF r.kind = "none" THEN LoadFrom(configs, list, k + 1, tables)
    ELSE LoadFinished(configs, list, k, tables, load_engine_finish(r.engine_data, r.engine))
LoadFinished(configs, list, k, tables, r) ==
    IF r.kind = "raise" THEN [completed |-> FALSE, tables |-> tables]
    ELSE IF r.kind = "none" THEN LoadFrom(configs, list, k + 1, tables)
    ELSE LoadRegistered(configs, list, k, register_engine(tables, r.engine))
LoadRegistered(configs, list, k, r) ==
    IF r.exit THEN [completed |-> FALSE, tables |-> r.tables]
    ELSE LoadFrom(configs, list, k + 1, r.tables)
ExpectedRegistry(configs, list) == LoadFrom(configs, list, 1, EmptyRegistry)

\* the adapters the Registry holds: by name and in the category lists
RegisteredAdapters ==
    {engines[n] : n \in DOMAIN engines}
        \cup UNION {{categories[c][i] : i \in 1..Len(categories[c])} : c \in DOMAIN categories}

(***************************************************************************)
(* C1: after a load_engines that ran to its end, no two registered         *)
(* adapters share a name and no two share a shortcut.                      *)
(***************************************************************************)
C1_UniqueNamesAndShortcuts ==
    pc = "idle" =>
        \A e1, e2 \in RegisteredAdapters :
            e1 # e2 => e1["name"] # e2["name"] /\ e1["shortcut"] # e2["shortcut"]

\* a completed load that registered two adapters or more
C1_Witness ==
    /\ pc = "idle"
    /\ nloads > 0
    /\ Cardinality(DOMAIN engines) >= 2
    /\ Cardinality(DOMAIN engine_shortcuts) >= 2

(***************************************************************************)
(* C2: register_engine exits when the name or the shortcut is already      *)
(* registered, and at the exit the three tables are what they were before  *)
(* the call.                                                               *)
(***************************************************************************)
C2_AbortLeavesRegistryUntouched ==
    [][pc = "register" =>
          /\ (engine["name"] \in DOMAIN engines
                 \/ engine["shortcut"] \in DOMAIN engine_shortcuts) => pc' = "exit"
          /\ pc' = "exit" => UNCHANGED <<engines, engine_shortcuts, categories>>]_vars

(***************************************************************************)
(* C3: the tables a completed load_engines(list) leaves are those that     *)
(* loading the configured engines of list builds from nothing, whatever    *)
(* was loaded before; an empty list leaves the empty tables with the       *)
(* "general" category.                                                     *)
(***************************************************************************)
C3_ReloadDependsOnlyOnConfigs ==
    pc = "idle" /\ nloads > 0 =>
        /\ ExpectedRegistry(EngineConfigs, engine_list).completed
        /\ Registry = ExpectedRegistry(EngineConfigs, engine_list).tables
        /\ engine_list = <<>> => Registry = EmptyRegistry

(***************************************************************************)
(* C5: the categories of a loaded adapter are its declared categories,     *)
(* followed by one "other" when none of the declared ones is a tab         *)
(* category, also when the same configuration is loaded again.             *)
(***************************************************************************)
DeclaredCategories(i) ==
    update_engine_attributes(load_module(EngineConfigs[i]["engine"]),
                             EngineConfigs[i])["categories"].v
HasTab(cats) == \E j \in 1..Len(cats) : cats[j] \in categories_as_tabs
C5_OtherAppendedExactlyOnce ==
    pc = "register" =>
        engine["categories"].v =
            IF HasTab(DeclaredCategories(engine_list[idx]))
            THEN DeclaredCategories(engine_list[idx])
            ELSE Append(DeclaredCategories(engine_list[idx]), OTHER_CATEGORY)

(***************************************************************************)
(* C4: what a lookup reads while load_engines runs beside it is the        *)
(* complete tables of the last completed load or the complete tables this  *)
(* load builds, never cleared or half-filled ones.                         *)
(***************************************************************************)
C4_ReaderSeesOldOrNew ==
    seen.read =>
        \/ seen.tables = published
        \/ /\ ExpectedRegistry(call_configs, engine_list).completed
           /\ seen.tables = ExpectedRegistry(call_configs, engine_list).tables

(***************************************************************************)
(* What load_engine makes of one configuration dictionary, for the claims  *)
(* about which engines a completed load registers.                         *)
(***************************************************************************)
\* the namespace after the merge, when load_engine gets that far
MergedOf(engine_data) == load_engine_merge(engine_data, AnyRaise(engine_data))
\* the namespace the activity and null checks look at
CheckedOf(engine_data) ==
    update_attributes_for_tor(set_language_attributes(MergedOf(engine_data).engine).engine)
\* load_engine(engine_data) returns an engine
Loadable(engine_data) ==
    /\ MergedOf(engine_data).kind = "engine"
    /\ load_engine_finish(MergedOf(engine_data).engine_data,
                          MergedOf(engine_data).engine).kind = "engine"
\* the configuration dictionary at position k of the list being loaded
ConfigAt(k) == settings_engines[engine_list[k]]
Positions == 1..Len(engine_list)
HasNullPublic(eng) == \E a \in DOMAIN eng \ PrivateAttrs : eng[a].t = "NoneType"

(***************************************************************************)
(* C6 as claimed: an otherwise valid adapter that declares "onions" is     *)
(* registered by a completed load exactly when the deployment's            *)
(* using_tor_proxy flag is set.                                            *)
(***************************************************************************)
OnionsOtherwiseValid(engine_data) ==
    /\ MergedOf(engine_data).kind = "engine"
    /\ set_language_attributes(MergedOf(engine_data).engine).raise = ""
    /\ CheckedOf(engine_data)["inactive"] # PyBool(TRUE)
    /\ ~HasNullPublic(CheckedOf(engine_data))
    /\ InList(S("onions"), CheckedOf(engine_data)["categories"].v)
C6_OnionsFollowDeploymentFlag ==
    pc = "idle" =>
        \A k \in Positions :
            OnionsOtherwiseValid(ConfigAt(k)) =>
                (ConfigAt(k)["name"] \in DOMAIN engines
                    <=> settings["using_tor_proxy"] = PyBool(TRUE))

(***************************************************************************)
(* C6 amended: such an adapter is registered exactly when the deployment's *)
(* flag or the adapter's own using_tor_proxy attribute is set.             *)
(***************************************************************************)
C6_OnionsFollowEitherFlag ==
    pc = "idle" =>
        \A k \in Positions :
            OnionsOtherwiseValid(ConfigAt(k)) =>
                (ConfigAt(k)["name"] \in DOMAIN engines
                    <=> \/ settings["using_tor_proxy"] = PyBool(TRUE)
                        \/ CheckedOf(ConfigAt(k))["using_tor_proxy"] = PyBool(TRUE))

\* an onion adapter registered by its own flag, and one left out, in a
\* deployment that does not use the proxy
C6_Witness ==
    /\ pc = "idle"
    /\ settings["using_tor_proxy"] = PyBool(FALSE)
    /\ engine_list = <<6, 7>>
    /\ DOMAIN engines = {Name1("t")}

(***************************************************************************)
(* C7: every registered adapter's name is lowercase without underscore; a  *)
(* configuration whose name has an underscore never gets past the name     *)
(* check, and a name is lowercased before the adapter is registered.       *)
(***************************************************************************)
LowercaseLetters ==
    {"a", "b", "c", "d", "e", "f", "g", "i", "l", "m", "n", "o", "r", "t", "v", "w"}
IsLowercaseName(name) ==
    name.t = "str" /\ \A i \in 1..Len(name.v) : name.v[i] \in LowercaseLetters
ConfiguredAs(mod, cfg, a) ==
    IF a = "categories" /\ cfg[a].t = "str" THEN PyList(SplitStrip(cfg[a].v))
    ELSE IF a = "about" /\ "about" \in DOMAIN mod
    THEN PyDict([k \in DOMAIN mod[a].v \cup DOMAIN cfg[a].v |->
                    IF k \in DOMAIN cfg[a].v THEN cfg[a].v[k] ELSE mod[a].v[k]])
    ELSE cfg[a]
MergedModule == load_module(ConfigAt(idx)["engine"])
FatalRaised == {"SyntaxError", "ModuleNotFoundError", "NotImplementedError",
                "SystemExit", "KeyboardInterrupt", "SystemError"}
OtherRaised == {"ValueError", "FileNotFoundError", "GeneratorExit"}
\* the position in the list of the adapter registered as name
PositionOf(name) == CHOOSE k \in Positions : Get(ConfigAt(k), "name") = name
C10_FatalAbortsOtherSkips ==
    /\ logged \in FatalRaised =>
          /\ pc = "exit"
          /\ Get(ConfigAt(idx), "engine") = S("broken")
          /\ ~ENABLED Next
          /\ \A e \in RegisteredAdapters :
                 \E k \in 1..(idx - 1) : Get(ConfigAt(k), "name") = e["name"]
    /\ (logged \in OtherRaised /\ pc # "raised") =>   \* raised by load_module
          /\ pc = "loop" /\ engine = PyNone /\ idx >= 2
          /\ Get(ConfigAt(idx - 1), "engine") = S("flaky")
          /\ ConfigAt(idx - 1)["name"] \notin DOMAIN engines
    /\ pc = "idle" =>
          /\ \A k \in Positions : Get(ConfigAt(k), "engine") # S("broken")
          /\ \A k \in Positions :
                 Get(ConfigAt(k), "engine") = S("flaky") =>
                     /\ ConfigAt(k)["name"] \notin DOMAIN engines
                     /\ \A j \in Positions :
                            j > k /\ Loadable(ConfigAt(j)) =>
                                ConfigAt(j)["name"] \in DOMAIN engines
          /\ \A c \in DOMAIN categories :
                 \A p, q \in 1..Len(categories[c]) :
                     p < q => PositionOf(categories[c][p]["name"])
                                  <= PositionOf(categories[c][q]["name"])

\* the adapter whose module raised was skipped, the one after it registered
C10_Witness ==
    /\ pc = "idle"
    /\ engine_list = <<14, 17>>
    /\ DOMAIN engines = {Name1("g")}

(***************************************************************************)
(* C11 as claimed: an adapter with flat language data whose configured     *)
(* language is not in its supported languages is dropped alone: the load   *)
(* never ends with an exception, the adapter is not registered and every   *)
(* loadable adapter listed after it is.                                    *)
(***************************************************************************)
UnsupportedLanguage(engine_data) ==
    /\ MergedOf(engine_data).kind = "engine"
    /\ "language" \in DOMAIN MergedOf(engine_data).engine
    /\ SupportedProperties(MergedOf(engine_data).engine).t = "list"
    /\ SupportedProperties(MergedOf(engine_data).engine).v # <<>>
    /\ ~InList(MergedOf(engine_data).engine["language"],
               SupportedProperties(MergedOf(engine_data).engine).v)
PyODict(keys, d) == [t |-> "dict", keys |-> keys, v |-> d]
PyFunction(returns) == [t |-> "function", v |-> returns]
EmptyODict == [keys |-> <<>>, val |-> <<>>]
\* d[key] = value on an ordered dict
OPut(d, key, value) ==
    [keys |-> IF key \in DOMAIN d.val THEN d.keys ELSE Append(d.keys, key),
     val |-> SetAttr(d.val, key, value)]
SeqToSet(l) == {l[i] : i \in 1..Len(l)}

\* the order of str: the pieces of the names and codes below, as Python
\* orders them, and texts compared piece by piece
SortedPieces ==
    <<"-", "AT", "BR", "CA", "CHT", "DE", "ES", "FR", "HK", "IL", "Latn", "RS", "TW", "US",
      "a", "b", "de", "e01", "e02", "e03", "e04", "e05", "e06", "e07", "e08", "e09",
      "e10", "e11", "e12", "en", "eo", "es", "fr", "g", "h", "it", "iw", "jp", "k", "m",
      "n", "p", "pt", "q", "r", "s", "sr", "u", "wikipedia", "x", "xx", "y", "z", "zh">>
PieceRank(piece) == CHOOSE i \in 1..Len(SortedPieces) : SortedPieces[i] = piece
RECURSIVE PiecesLess(_, _)
PiecesLess(p, q) ==
    IF q = <<>> THEN FALSE
    ELSE IF p = <<>> THEN TRUE
    ELSE IF p[1] = q[1] THEN PiecesLess(Tail(p), Tail(q))
    ELSE PieceRank(p[1]) < PieceRank(q[1])
StrLess(a, b) == PiecesLess(a.v, b.v)
\* list.sort() of a list of str
Sorted(l) == SortSeq(l, StrLess)
\* list(d) of a table whose keys the model keeps as a set
RECURSIVE ListOf(_)
ListOf(keyset) ==
    IF keyset = {} THEN <<>>
    ELSE LET k == CHOOSE x \in keyset : TRUE
         IN  <<k>> \o ListOf(keyset \ {k})

\* language and region codes
Code3(l, script, r) == PyStr(<<l, "-", script, "-", r>>)

\* babel's locale data: what Locale.parse(lang_code, sep='-') gives for the
\* codes it knows.  language_name is get_language_name().title(),
\* english_name is english_name.split(' (')[0]; names in other scripts are
\* written in ASCII.
Locale(language, territory, language_name, english_name, territory_name) ==
    [t |-> "Locale", language |-> language, territory |-> territory,
     language_name |-> S(language_name), english_name |-> S(english_name),
     territory_name |-> IF territory_name = "" THEN PyNone ELSE S(territory_name)]
KnownLocales ==
    (Code1("de") :> Locale("de", "", "Deutsch", "German", ""))
    @@ (Code2("de", "AT") :> Locale("de", "AT", "Deutsch", "German", "Oesterreich"))
    @@ (Code2("de", "DE") :> Locale("de", "DE", "Deutsch", "German", "Deutschland"))
    @@ (Code1("en") :> Locale("en", "", "English", "English", ""))
    @@ (Code2("en", "US") :> Locale("en", "US", "English", "English", "United States"))
    @@ (Code1("eo") :> Locale("eo", "", "Esperanto", "Esperanto", ""))
    @@ (Code1("es") :> Locale("es", "", "Espanol", "Spanish", ""))
    @@ (Code2("es", "ES") :> Locale("es", "ES", "Espanol", "Spanish", "Espana"))
    @@ (Code1("fr") :> Locale("fr", "", "Francais", "French", ""))
    @@ (Code2("fr", "FR") :> Locale("fr", "FR", "Francais", "French", "France"))
    @@ (Code2("fr", "CA") :> Locale("fr", "CA", "Francais", "French", "Canada"))
    @@ (Code1("it") :> Locale("it", "", "Italiano", "Italian", ""))
    @@ (Code2("iw", "IL") :> Locale("he", "IL", "Ivrit", "Hebrew", "Yisrael"))
    @@ (Code1("pt") :> Locale("pt", "", "Portugues", "Portuguese", ""))
    @@ (Code2("pt", "BR") :> Locale("pt", "BR", "Portugues", "Portuguese", "Brasil"))
    @@ (Code1("sr") :> Locale("sr", "", "Srpski-Cyrl", "Serbian", ""))
    @@ (Code3("sr", "Latn", "RS") :> Locale("sr", "RS", "Srpski", "Serbian", "Srbija"))
    @@ (Code2("sr", "RS") :> Locale("sr", "RS", "Srpski-Cyrl", "Serbian", "Srbija"))
    @@ (Code2("zh", "TW") :> Locale("zh", "TW", "Zhongwen", "Chinese", "Taiwan"))
    @@ (Code2("zh", "HK") :> Locale("zh", "HK", "Zhongwen", "Chinese", "Xianggang"))
\* get_locale(lang_code): None for UnknownLocaleError and ValueError
get_locale(lang_code) ==
    IF lang_code \in DOMAIN KnownLocales THEN KnownLocales[lang_code] ELSE PyNone

\* babel's get_global('likely_subtags'): language -> the pieces between the
\* underscores of the likely tag
LikelySubtags ==
    (Code1("de") :> <<"de", "Latn", "DE">>) @@ (Code1("en") :> <<"en", "Latn", "US">>)
    @@ (Code1("eo") :> <<"eo", "Latn", "001">>) @@ (Code1("fr") :> <<"fr", "Latn", "FR">>)
    @@ (Code1("es") :> <<"es", "Latn", "ES">>) @@ (Code1("sr") :> <<"sr", "Cyrl", "RS">>)
    @@ (Code1("zh") :> <<"zh", "Hans", "CN">>) @@ (Code1("pt") :> <<"pt", "Latn", "BR">>)
\* the same data without an entry for de, as a catalog that lacks it
LikelySubtagsWithoutGerman ==
    [l \in DOMAIN LikelySubtags \ {Code1("de")} |-> LikelySubtags[l]]

(***************************************************************************)
(* Engine modules with fetch functions, and the registries the script is   *)
(* run on.  A fetch function is given by what it returns for the response  *)
(* of the engine's site.                                                   *)
(***************************************************************************)
\* a module of category general with the legacy interface
GeneralModule(fetched) ==
    [__doc__ |-> PyNone,
     categories |-> PyList(<<S("general")>>),
     supported_languages |-> PyList(<<Code1("en")>>),
     supported_languages_url |-> S("https://site/preferences"),
     _fetch_supported_languages |-> PyFunction(fetched)]
\* a module of another category with the legacy interface and no language
\* data from an earlier run
OtherModule(fetched) ==
    [__doc__ |-> PyNone,
     categories |-> PyList(<<S("images")>>),
     supported_languages_url |-> S("https://site/preferences"),
     _fetch_supported_languages |-> PyFunction(fetched)]
\* what _fetch_engine_properties makes of the template it is given
Properties(regions, languages) ==
    PyODict(<<S("type"), S("regions"), S("languages")>>,
            (S("type") :> S("engine_properties")) @@ (S("regions") :> regions)
            @@ (S("languages") :> languages))
NoNames == PyODict(<<>>, <<>>)
\* a dict that gives each code of the list some value
Named(codes) == PyODict(codes, [c \in SeqToSet(codes) |-> PyDict([name |-> c])])
\* a module with the structured interface, and with the legacy one as well
StructuredModule(properties) ==
    [__doc__ |-> PyNone,
     categories |-> PyList(<<S("general")>>),
     supported_properties_url |-> S("https://site/settings"),
     _fetch_engine_properties |-> PyFunction(properties)]
BothModule(properties, fetched) ==
    [a \in DOMAIN StructuredModule(properties) \cup {"supported_languages_url",
                                                     "_fetch_supported_languages"} |->
        IF a \in DOMAIN StructuredModule(properties) THEN StructuredModule(properties)[a]
        ELSE GeneralModule(fetched)[a]]
\* the legacy module of the loader with a fetch function
LegacyFetchModule(fetched) ==
    [a \in DOMAIN legacy_module \cup {"_fetch_supported_languages"} |->
        IF a \in DOMAIN legacy_module THEN legacy_module[a] ELSE PyFunction(fetched)]

\* the namespace load_engine makes of a module that loads (no tor proxy)
Loaded(module, engine_data) ==
    AppendOther(engine_data,
                set_language_attributes(
                    update_engine_attributes(module, engine_data)).engine).engine
Config(name, module_name) ==
    [name |-> Name1(name), engine |-> S(module_name), shortcut |-> S(name)]
WikipediaNames ==
    PyODict(<<Code1("en"), Code1("jp")>>,
            (Code1("en") :> PyDict([name |-> S("English"), english_name |-> S("English")]))
            @@ (Code1("jp") :> PyDict([name |-> PyStr(<<"Nihongo", " (", "Nippon)">>),
                                       english_name |-> S("Japanese")])))

\* three adapters that report {de, de-AT}, {de} and {de-DE}
GermanRegistry ==
    << Loaded(GeneralModule(PyList(<<Code2("de", "DE")>>)), Config("z", "mz")),
       Loaded(GeneralModule(PyList(<<Code1("de"), Code2("de", "AT")>>)), Config("x", "mx")),
       Loaded(GeneralModule(PyList(<<Code1("de")>>)), Config("y", "my")) >>
\* two adapters that report the same language in two scripts
ScriptsRegistry ==
    << Loaded(OtherModule(PyList(<<Code1("sr"), Code1("en")>>)), Config("b", "mb")),
       Loaded(OtherModule(PyList(<<Code3("sr", "Latn", "RS")>>)), Config("a", "ma")) >>
\* adapters with the structured interface, both, the legacy one, and none
InterfacesRegistry ==
    << Loaded(OtherModule(WikipediaNames), Config("wikipedia", "mw")),
       Loaded(StructuredModule(Properties(NoNames, Named(<<Code1("de")>>))),
              Config("s", "ms")),
       Loaded(dummy_module, Config("r", "dummy")),
       Loaded(GeneralModule(PyList(<<Code1("it")>>)),
              SetAttr(Config("u", "mu"), "disabled", PyBool(TRUE))),
       Loaded(GeneralModule(PyList(<<Code1("fr"), Code2("en", "US"), Code1("jp"),
                                     Code1("de")>>)),
              Config("q", "mq")),
       Loaded(BothModule(Properties(Named(<<Code2("de", "DE"), Code2("iw", "IL")>>),
                                    Named(<<Code1("de")>>)),
                         PyList(<<Code1("xx")>>)),
              Config("p", "mp")) >>
\* an adapter whose aliases set_language_attributes found, and one whose
\* module gives two canonical codes the same native code
TwoToOneAliases ==
    PyDict((Code2("zh", "TW") :> PyStr(<<"zh", "-", "CHT">>))
           @@ (Code2("zh", "HK") :> PyStr(<<"zh", "-", "CHT">>)))
AliasesRegistry ==
    << Loaded(LegacyFetchModule(PyList(<<Code1("de"), Code1("pt")>>)),
              Config("g", "legacy")),
       Loaded(SetAttr(OtherModule(PyList(<<PyStr(<<"zh", "-", "CHT">>)>>)),
                      "language_aliases", TwoToOneAliases),
              Config("h", "mh")) >>
\* an adapter that reports a code babel does not know, and no wikipedia
UnknownRegistry ==
    << Loaded(GeneralModule(PyList(<<Code1("en"), Code1("xx")>>)), Config("k", "mk")) >>
\* one main adapter and twelve others: coverage sets of 12 and of 7
SevenOthers == {"e01", "e02", "e03", "e04", "e05", "e06", "e07"}
FiveOthers == {"e08", "e09", "e10", "e11", "e12"}
OtherFetched(name) ==
    IF name \in SevenOthers
    THEN PyList(<<Code2("fr", "FR"), Code2("fr", "CA"), Code2("es", "ES"), Code1("it")>>)
    ELSE PyList(<<Code1("fr"), Code1("es")>>)
OthersInOrder ==
    <<"e12", "e01", "e02", "e03", "e04", "e05", "e06", "e07", "e08", "e09", "e10", "e11">>
ManyRegistry ==
    << Loaded(GeneralModule(PyList(<<Code1("eo"), Code1("en")>>)), Config("m", "mm")) >>
    \o [i \in 1..Len(OthersInOrder) |->
           Loaded(OtherModule(OtherFetched(OthersInOrder[i])),
                  Config(OthersInOrder[i], "mo"))]
\* wikipedia, and an adapter that reports a code neither babel nor wikipedia
\* knows and a code only wikipedia knows
NullNameRegistry ==
    << Loaded(OtherModule(WikipediaNames), Config("wikipedia", "mw")),
       Loaded(GeneralModule(PyList(<<Code1("xx"), Code1("jp"), Code2("en", "US")>>)),
              Config("n", "mn")) >>
Registries ==
    {GermanRegistry, ScriptsRegistry, InterfacesRegistry, AliasesRegistry,
     UnknownRegistry, ManyRegistry, NullNameRegistry}

\* the three tables after load_engines registered the adapters of a list
RECURSIVE RegisterAll(_, _)
RegisterAll(tables, adapters) ==
    IF adapters = <<>> THEN tables
    ELSE RegisterAll(register_engine(tables, adapters[1]).tables, Tail(adapters))

(***************************************************************************)
(* fetch_supported_languages, join_language_lists and filter_language_list *)
(* as functions of their data.                                             *)
(***************************************************************************)
\* the truth value of an object
IsTrue(x) ==
    CASE x.t = "NoneType" -> FALSE
      [] x.t = "bool" -> x.v
      [] x.t \in {"list", "str"} -> x.v # <<>>
      [] x.t = "dict" -> DOMAIN x.v # {}
      [] OTHER -> TRUE

\* a choice that takes the legacy function first
FetchFunctionLegacyFirst(eng) ==
    IF ~IsNone(Get(eng, "_fetch_supported_languages")) THEN "_fetch_supported_languages"
    ELSE IF ~IsNone(Get(eng, "_fetch_engine_properties"))
    THEN "_fetch_engine_properties"
    ELSE ""
\* lines 68-90: the function fetch_supported_languages calls for an engine
\* ("" when it skips the engine)
FetchFunction(eng) ==
    IF ~IsNone(Get(eng, "_fetch_engine_properties")) THEN "_fetch_engine_properties"
    ELSE IF ~IsNone(Get(eng, "_fetch_supported_languages"))
    THEN "_fetch_supported_languages"
    ELSE ""
\* lines 72-83: engine_properties as stored for the engine
Fetched(eng) ==
    IF FetchFunction(eng) = "_fetch_engine_properties"
    THEN eng["_fetch_engine_properties"].v
    ELSE IF eng["_fetch_supported_languages"].v.t = "list"
    THEN PyList(Sorted(eng["_fetch_supported_languages"].v.v))
    ELSE eng["_fetch_supported_languages"].v

\* lines 187-193: the codes join_language_lists goes through for a value,
\* in order
EngineCodes(languages) ==
    IF languages.t = "dict"
    THEN IF S("regions") \in DOMAIN languages.v
         THEN IF languages.v[S("regions")].t = "dict"
              THEN languages.v[S("regions")].keys
              ELSE languages.v[S("regions")].v
         ELSE languages.keys
    ELSE languages.v

\* a join that leaves the fetched code as it is
ReversedCodesUnchanged(eng, lang_code) == {lang_code}
\* lines 198-199: the codes the alias reversal can put in the place of
\* lang_code.  Python takes the first key with that alias; the model keeps
\* no order of the keys of language_aliases, so any of them.
ReversedCodes(eng, lang_code) ==
    IF /\ HasAttr(eng, "language_aliases")
       /\ \E lc \in DOMAIN eng["language_aliases"].v :
              eng["language_aliases"].v[lc] = lang_code
    THEN {lc \in DOMAIN eng["language_aliases"].v :
              eng["language_aliases"].v[lc] = lang_code}
    ELSE {lang_code}

\* lines 204-205: language-TERRITORY when the locale has both
StandardCode(lang_code, locale) ==
    IF ~IsNone(locale) /\ locale.territory # ""
    THEN Code2(locale.language, locale.territory)
    ELSE lang_code
\* line 206
ShortCode(lang_code) == PyStr(Split(lang_code.v, "-")[1])

\* lines 209-228: the entry of a language seen for the first time
\* (raise KeyError when wikipedia is asked and was not fetched)
NewLanguage(fetched, locale, short_code) ==
    IF ~IsNone(locale)
    THEN [raise |-> "",
          entry |-> [name |-> locale.language_name, english_name |-> locale.english_name,
                     counter |-> {}, countries |-> <<>>]]
    ELSE IF S("wikipedia") \notin DOMAIN fetched.val
    THEN [raise |-> "KeyError", entry |-> PyNone]
    ELSE IF short_code \in DOMAIN fetched.val[S("wikipedia")].v
    THEN [raise |-> "",
          entry |-> [name |-> fetched.val[S("wikipedia")].v[short_code].v["name"],
                     english_name |->
                         fetched.val[S("wikipedia")].v[short_code].v["english_name"],
                     counter |-> {}, countries |-> <<>>]]
    ELSE [raise |-> "",
          entry |-> [name |-> PyNone, english_name |-> PyNone,
                     counter |-> {}, countries |-> <<>>]]

\* a count that puts the engine of a country code into the country's counter
\* only
CountEngineCountryOnly(entry, engine_name, lang_code, short_code, locale) ==
    IF lang_code = short_code
    THEN [entry EXCEPT !.counter = @ \cup {engine_name}]
    ELSE [entry EXCEPT
             !.countries =
                 SetAttr(@, lang_code,
                         IF lang_code \in DOMAIN @
                         THEN [@[lang_code] EXCEPT !.counter = @ \cup {engine_name}]
                         ELSE [country_name |-> IF IsNone(locale) THEN PyStr(<<>>)
                                                ELSE locale.territory_name,
                               counter |-> {engine_name}])]
\* lines 231-249 for an entry that exists: the country and the counters
CountEngine(entry, engine_name, lang_code, short_code, locale) ==
    IF lang_code = short_code
    THEN [entry EXCEPT !.counter = @ \cup {engine_name}]
    ELSE [entry EXCEPT
             !.counter = @ \cup {engine_name},
             !.countries =
                 SetAttr(@, lang_code,
                         IF lang_code \in DOMAIN @
                         THEN [@[lang_code] EXCEPT !.counter = @ \cup {engine_name}]
                         ELSE [country_name |-> IF IsNone(locale) THEN PyStr(<<>>)
                                                ELSE locale.territory_name,
                               counter |-> {engine_name}])]

\* lines 201-249: one pass of the loop over engine_codes, after the alias
\* reversal; the result is [raise, table]
JoinStandard(table, fetched, engine_name, lang_code, short_code, locale) ==
    IF short_code \in DOMAIN table
    THEN [raise |-> "",
          table |-> SetAttr(table, short_code,
                            CountEngine(table[short_code], engine_name, lang_code,
                                        short_code, locale))]
    ELSE IF NewLanguage(fetched, locale, short_code).raise # ""
    THEN [raise |-> NewLanguage(fetched, locale, short_code).raise, table |-> table]
    ELSE [raise |-> "",
          table |-> SetAttr(table, short_code,
                            CountEngine(NewLanguage(fetched, locale, short_code).entry,
                                        engine_name, lang_code, short_code, locale))]
JoinCode(table, fetched, engine_name, lang_code) ==
    JoinStandard(table, fetched, engine_name,
                 StandardCode(lang_code, get_locale(lang_code)),
                 ShortCode(StandardCode(lang_code, get_locale(lang_code))),
                 get_locale(lang_code))

\* lines 256-257
min_engines_per_lang == 12
min_engines_per_country == 7
\* lines 259-266
main_engines ==
    {engine_name \in DOMAIN engines :
        /\ InList(S("general"), engines[engine_name]["categories"].v)
        /\ HasAttr(engines[engine_name], "supported_languages")
        /\ IsTrue(engines[engine_name]["supported_languages"])
        /\ ~IsTrue(engines[engine_name]["disabled"])}
\* a test that asks for both the count and the main engines
KeepsLanguageBoth(lang, main, min_lang) ==
    /\ Cardinality(lang.counter) >= min_lang
    /\ \A main_engine \in main : main_engine \in lang.counter
\* a test that keeps the languages of at most min_lang engines
KeepsLanguageAtMost(lang, main, min_lang) ==
    \/ Cardinality(lang.counter) <= min_lang
    \/ \A main_engine \in main : main_engine \in lang.counter
\* lines 272-275: the test a language passes to be kept
KeepsLanguage(lang, main, min_lang) ==
    \/ Cardinality(lang.counter) >= min_lang
    \/ \A main_engine \in main : main_engine \in lang.counter
\* lines 269-276
FilteredLanguages(all_languages, main, min_lang) ==
    [code \in {c \in DOMAIN all_languages : KeepsLanguage(all_languages[c], main, min_lang)}
        |-> all_languages[code]]
\* lines 278-284: _copy_lang_data
CopyLangData(all_languages, lang, country_name) ==
    IF IsTrue(country_name)
    THEN [name |-> all_languages[lang].name,
          english_name |-> all_languages[lang].english_name,
          country_name |-> country_name]
    ELSE [name |-> all_languages[lang].name,
          english_name |-> all_languages[lang].english_name]
\* lines 293-295: the country codes with enough engines
EnoughCountries(lang_data, min_country) ==
    {lang_country \in DOMAIN lang_data.countries :
        Cardinality(lang_data.countries[lang_country].counter) >= min_country}
\* a catalog of likely subtags that is never asked
LikelyCountryNever(likely, lang) == PyNone
\* lines 305-310: lang_country from babel's likely subtags (None without one)
LikelyCountry(likely, lang) ==
    IF /\ lang \in DOMAIN likely
       /\ likely[lang] # <<>>
       /\ Len(likely[lang][Len(likely[lang])]) = 2
    THEN PyStr(lang.v \o <<"-", likely[lang][Len(likely[lang])]>>)
    ELSE PyNone
\* countries of one language without the step for a language no country of
\* which has enough engines
FilteredCountriesNoFallback(all_languages, lang, enough, likely) ==
    [c \in enough \cup (IF Cardinality(enough) > 1 THEN {lang} ELSE {}) |->
        IF c = lang THEN CopyLangData(all_languages, lang, PyNone)
        ELSE CopyLangData(all_languages, lang,
                          all_languages[lang].countries[c].country_name)]
\* countries of one language with the language itself beside a single country
FilteredCountriesAlwaysBare(all_languages, lang, enough, likely) ==
    IF Cardinality(enough) >= 1
    THEN [c \in enough \cup {lang} |->
             IF c = lang THEN CopyLangData(all_languages, lang, PyNone)
             ELSE CopyLangData(all_languages, lang,
                               all_languages[lang].countries[c].country_name)]
    ELSE IF ~IsNone(LikelyCountry(likely, lang))
    THEN [c \in {LikelyCountry(likely, lang)} |-> CopyLangData(all_languages, lang, PyNone)]
    ELSE [c \in {lang} |-> CopyLangData(all_languages, lang, PyNone)]
\* lines 289-315: filtered_countries of one language
FilteredCountries(all_languages, lang, enough, likely) ==
    IF Cardinality(enough) > 1
    THEN [c \in enough \cup {lang} |->
             IF c = lang THEN CopyLangData(all_languages, lang, PyNone)
             ELSE CopyLangData(all_languages, lang,
                               all_languages[lang].countries[c].country_name)]
    ELSE IF Cardinality(enough) = 1
    THEN [c \in enough |->
             CopyLangData(all_languages, lang,
                          all_languages[lang].countries[c].country_name)]
    ELSE IF ~IsNone(LikelyCountry(likely, lang))
    THEN [c \in {LikelyCountry(likely, lang)} |-> CopyLangData(all_languages, lang, PyNone)]
    ELSE [c \in {lang} |-> CopyLangData(all_languages, lang, PyNone)]
\* lines 287-319: every language's filtered_countries in one dict
FilteredWithCountries(all_languages, filtered, min_country, likely) ==
    [c \in UNION {DOMAIN FilteredCountries(all_languages, lang,
                                           EnoughCountries(filtered[lang], min_country),
                                           likely) : lang \in DOMAIN filtered} |->
        FilteredCountries(all_languages,
            CHOOSE lang \in DOMAIN filtered :
                c \in DOMAIN FilteredCountries(all_languages, lang,
                                 EnoughCountries(filtered[lang], min_country), likely),
            EnoughCountries(filtered[
                CHOOSE lang \in DOMAIN filtered :
                    c \in DOMAIN FilteredCountries(all_languages, lang,
                                     EnoughCountries(filtered[lang], min_country), likely)],
                min_country),
            likely)[c]]

(***************************************************************************)
(* update_languages.py run on a registry: load_engines has completed,      *)
(* then fetch_supported_languages, join_language_lists and                 *)
(* filter_language_list run one after the other.                           *)
(***************************************************************************)
InitLanguages ==
    /\ settings = [using_tor_proxy |-> PyBool(FALSE),
                   extra_proxy_timeout |-> PyNum(extra_proxy_timeout)]
    /\ settings_engines = EngineConfigs
    /\ \E registry \in Registries :
           /\ engines = RegisterAll(EmptyRegistry, registry).engines
           /\ engine_shortcuts = RegisterAll(EmptyRegistry, registry).engine_shortcuts
           /\ categories = RegisterAll(EmptyRegistry, registry).categories
    /\ engine_list = <<>>
    /\ idx = 1
    /\ engine = PyNone
    /\ pc = "idle"
    /\ logged = ""
    /\ nloads = 1
    /\ seen = Nothing
    /\ published = EmptyRegistry
    /\ call_configs = EngineConfigs
    /\ likely_subtags \in {LikelySubtags, LikelySubtagsWithoutGerman}
    /\ apc = "start"
    /\ fetch_names = <<>>
    /\ fidx = 1
    /\ cidx = 1
    /\ engines_languages = EmptyODict
    /\ fetch_log = <<>>
    /\ language_list = <<>>
    /\ reversed = {}
    /\ filtered_languages = <<>>
    /\ filtered_languages_with_countries = <<>>
    /\ language_codes = <<>>

\* lines 50-64: names = list(engines); names.sort()
fetch_supported_languages_start ==
    /\ apc = "start"
    /\ apc' = "fetch"
    /\ fetch_names' = Sorted(ListOf(DOMAIN engines))
    /\ engines_languages' = EmptyODict
    /\ fidx' = 1
    /\ UNCHANGED <<language_codes, likely_subtags, cidx, fetch_log, language_list, reversed,
                   filtered_languages, filtered_languages_with_countries>>

\* lines 67-92, one pass of the loop: the request or the fetch function may
\* raise, and nothing in the script catches it
fetch_engine ==
    /\ apc = "fetch"
    /\ fidx <= Len(fetch_names)
    /\ \E engine_name \in {fetch_names[fidx]} :
          IF FetchFunction(engines[engine_name]) = ""
          THEN /\ fidx' = fidx + 1
               /\ UNCHANGED <<apc, engines_languages, fetch_log>>
          ELSE \E raises \in BOOLEAN :
                  /\ fetch_log' = Append(fetch_log,
                                         <<engine_name, FetchFunction(engines[engine_name])>>)
                  /\ IF raises
                     THEN apc' = "fetch raised" /\ UNCHANGED <<fidx, engines_languages>>
                     ELSE /\ engines_languages' =
                                 OPut(engines_languages, engine_name,
                                      Fetched(engines[engine_name]))
                          /\ fidx' = fidx + 1
                          /\ UNCHANGED apc
    /\ UNCHANGED <<language_codes, likely_subtags, fetch_names, cidx, language_list, reversed,
                   filtered_languages, filtered_languages_with_countries>>

\* lines 94-100, and line 183 of join_language_lists
fetch_supported_languages_return ==
    /\ apc = "fetch"
    /\ fidx > Len(fetch_names)
    /\ apc' = "join"
    /\ fidx' = 1
    /\ cidx' = 1
    /\ language_list' = <<>>
    /\ UNCHANGED <<language_codes, likely_subtags, fetch_names, engines_languages, fetch_log, reversed,
                   filtered_languages, filtered_languages_with_countries>>

\* lines 195-249: one pass of the loop over engine_codes
join_code ==
    /\ apc = "join"
    /\ fidx <= Len(engines_languages.keys)
    /\ \E engine_name \in {engines_languages.keys[fidx]} :
       \E codes \in {EngineCodes(engines_languages.val[engine_name])} :
          /\ cidx <= Len(codes)
          /\ \E lang_code \in ReversedCodes(engines[engine_name], codes[cidx]) :
             \E r \in {JoinCode(language_list, engines_languages, engine_name, lang_code)} :
                /\ reversed' = reversed \cup
                       IF lang_code = codes[cidx] THEN {}
                       ELSE {[engine |-> engine_name, alias |-> codes[cidx],
                              lang_code |-> lang_code]}
                /\ language_list' = r.table
                /\ apc' = IF r.raise = "" THEN "join" ELSE "join raised"
                /\ cidx' = IF r.raise = "" THEN cidx + 1 ELSE cidx
    /\ UNCHANGED <<language_codes, likely_subtags, fetch_names, fidx, engines_languages, fetch_log,
                   filtered_languages, filtered_languages_with_countries>>

\* line 185: the next engine of engines_languages
join_next_engine ==
    /\ apc = "join"
    /\ fidx <= Len(engines_languages.keys)
    /\ cidx > Len(EngineCodes(engines_languages.val[engines_languages.keys[fidx]]))
    /\ fidx' = fidx + 1
    /\ cidx' = 1
    /\ UNCHANGED <<language_codes, likely_subtags, apc, fetch_names, engines_languages, fetch_log,
                   language_list, reversed, filtered_languages,
                   filtered_languages_with_countries>>

\* line 251, and lines 256-276 of filter_language_list
filter_languages ==
    /\ apc = "join"
    /\ fidx > Len(engines_languages.keys)
    /\ apc' = "filter"
    /\ filtered_languages' =
           FilteredLanguages(language_list, main_engines, min_engines_per_lang)
    /\ UNCHANGED <<language_codes, likely_subtags, fetch_names, fidx, cidx, engines_languages, fetch_log,
                   language_list, reversed, filtered_languages_with_countries>>

\* lines 286-319
filter_countries ==
    /\ apc = "filter"
    /\ apc' = "done"
    /\ filtered_languages_with_countries' =
           FilteredWithCountries(language_list, filtered_languages,
                                 min_engines_per_country, likely_subtags)
    /\ UNCHANGED <<language_codes, likely_subtags, fetch_names, fidx, cidx, engines_languages, fetch_log,
                   language_list, reversed, filtered_languages>>

\* sorted(languages)
SortedCodes(languages) == Sorted(ListOf(DOMAIN languages))
\* x or ''
OrEmpty(x) == IF IsTrue(x) THEN x ELSE PyStr(<<>>)
\* name.split(' (')[0]
NameHead(name) == PyStr(Split(name.v, " (")[1])
\* len() of a str
RECURSIVE StrLen(_)
StrLen(pieces) == IF pieces = <<>> THEN 0 ELSE Len(pieces[1]) + StrLen(Tail(pieces))
\* emoji are written by what they show: the globe, the flag of a territory
Globe == S("globe")
FlagOf(territory) == PyStr(<<"flag", territory>>)
\* lines 112-118
lang2emoji ==
    (S("ha") :> FlagOf("NE")) @@ (S("bs") :> FlagOf("BA")) @@ (S("jp") :> FlagOf("JP"))
    @@ (S("ua") :> FlagOf("UA")) @@ (S("he") :> FlagOf("IR"))
\* babel's parse_locale(lang_code, '-') on language, language-TERRITORY,
\* language-Script and language-Script-TERRITORY; ValueError for other texts.
\* A territory has two letters or three digits, a script four letters.
DigitTerritories == {"001", "419"}
IsTerritory(part) == part = <<>> \/ Len(part[1]) = 2 \/ part[1] \in DigitTerritories
ParseLocale(lang_code) ==
    LET parts == Split(lang_code.v, "-")
    IN  IF Len(parts) = 1
        THEN [raise |-> "", language |-> parts[1], territory |-> <<>>]
        ELSE IF Len(parts) = 2 /\ parts[2] # <<>> /\ Len(parts[2][1]) = 4
        THEN [raise |-> "", language |-> parts[1], territory |-> <<>>]
        ELSE IF Len(parts) = 2 /\ parts[2] # <<>> /\ IsTerritory(parts[2])
        THEN [raise |-> "", language |-> parts[1], territory |-> parts[2]]
        ELSE IF /\ Len(parts) = 3 /\ parts[2] # <<>> /\ Len(parts[2][1]) = 4
                /\ parts[3] # <<>> /\ IsTerritory(parts[3])
        THEN [raise |-> "", language |-> parts[1], territory |-> parts[3]]
        ELSE [raise |-> "ValueError", language |-> <<>>, territory |-> <<>>]
\* lines 121-160 (None: no flag found)
get_unicode_flag(lang_code) ==
    IF PyStr(Lower(lang_code.v)) \in DOMAIN lang2emoji
    THEN lang2emoji[PyStr(Lower(lang_code.v))]
    ELSE IF StrLen(lang_code.v) = 2 THEN Globe
    ELSE IF ParseLocale(lang_code).territory = <<>>
    THEN Get(lang2emoji, PyStr(ParseLocale(lang_code).language))
    ELSE IF PyStr(Lower(ParseLocale(lang_code).territory)) \in DOMAIN lang2emoji
    THEN lang2emoji[PyStr(Lower(ParseLocale(lang_code).territory))]
    ELSE IF ParseLocale(lang_code).territory[1] \in DigitTerritories
    THEN PyNone
    ELSE FlagOf(ParseLocale(lang_code).territory[1])
\* lines 163-171
get_territory_name(lang_code) ==
    IF IsNone(get_locale(lang_code)) THEN PyNone ELSE get_locale(lang_code).territory_name
\* lines 347-354: the item of a code
LanguageItem(languages, code) ==
    <<code, NameHead(languages[code].name), OrEmpty(get_territory_name(code)),
      OrEmpty(Get(languages[code], "english_name")), OrEmpty(get_unicode_flag(code))>>
\* lines 338-358: the items of the codes in sorted order, without the codes
\* whose name is None
RECURSIVE LanguageCodesFrom(_, _, _)
LanguageCodesFrom(languages, codes, i) ==
    IF i > Len(codes) THEN <<>>
    ELSE IF IsNone(languages[codes[i]].name)
    THEN LanguageCodesFrom(languages, codes, i + 1)
    ELSE <<LanguageItem(languages, codes[i])>> \o LanguageCodesFrom(languages, codes, i + 1)
LanguageCodes(languages) == LanguageCodesFrom(languages, SortedCodes(languages), 1)

\* line 375: write_languages_file(_filtered_languages)
write_languages_file ==
    /\ apc = "done"
    /\ apc' = "written"
    /\ language_codes' = LanguageCodes(filtered_languages_with_countries)
    /\ UNCHANGED <<likely_subtags, fetch_names, fidx, cidx, engines_languages, fetch_log,
                   language_list, reversed, filtered_languages,
                   filtered_languages_with_countries>>

NextLanguages ==
    \/ fetch_supported_languages_start /\ UNCHANGED <<loader_vars, reader_vars>>
    \/ fetch_engine /\ UNCHANGED <<loader_vars, reader_vars>>
    \/ fetch_supported_languages_return /\ UNCHANGED <<loader_vars, reader_vars>>
    \/ join_code /\ UNCHANGED <<loader_vars, reader_vars>>
    \/ join_next_engine /\ UNCHANGED <<loader_vars, reader_vars>>
    \/ filter_languages /\ UNCHANGED <<loader_vars, reader_vars>>
    \/ filter_countries /\ UNCHANGED <<loader_vars, reader_vars>>
    \/ write_languages_file /\ UNCHANGED <<loader_vars, reader_vars>>

SpecLanguages == InitLanguages /\ [][NextLanguages]_vars

(***************************************************************************)
(* C12: a fetch that fails for one adapter does not end the run: the       *)
(* script goes on with the other adapters.                                 *)
(***************************************************************************)
C12_FetchFailureDoesNotAbort ==
    apc = "fetch raised" => ENABLED NextLanguages

(***************************************************************************)
(* join_language_lists as a function of the fetched data, for the claims   *)
(* that compare its results.  Where the alias reversal has a choice this   *)
(* takes the same key whatever the order of the engines.                   *)
(***************************************************************************)
RECURSIVE JoinCodes(_, _, _, _, _)
JoinCodes(result, fetched, engine_name, codes, i) ==
    IF i > Len(codes) \/ result.raise # "" THEN result
    ELSE JoinCodes(JoinCode(result.table, fetched, engine_name,
                            CHOOSE lc \in ReversedCodes(engines[engine_name], codes[i]) :
                                TRUE),
                   fetched, engine_name, codes, i + 1)
RECURSIVE JoinEngines(_, _, _)
JoinEngines(result, fetched, k) ==
    IF k > Len(fetched.keys) THEN result
    ELSE JoinEngines(JoinCodes(result, fetched, fetched.keys[k],
                               EngineCodes(fetched.val[fetched.keys[k]]), 1),
                     fetched, k + 1)
join_language_lists(fetched) == JoinEngines([raise |-> "", table |-> <<>>], fetched, 1)

\* the orders in which the fetched data of the engines can be merged: every
\* order of up to MaxPermuted engines, the given order and its reverse of more
MaxPermuted == 3
Reverse(l) == [i \in 1..Len(l) |-> l[Len(l) + 1 - i]]
Orders(keys) ==
    IF Len(keys) <= MaxPermuted
    THEN {o \in [1..Len(keys) -> SeqToSet(keys)] : SeqToSet(o) = SeqToSet(keys)}
    ELSE {keys, Reverse(keys)}

(***************************************************************************)
(* C13: the table join_language_lists builds is the same for every order   *)
(* in which the engines' data is merged.                                   *)
(***************************************************************************)
C13_JoinIndependentOfOrder ==
    apc \in {"join", "filter", "done", "written"} =>
        \A order \in Orders(engines_languages.keys) :
            join_language_lists([keys |-> order, val |-> engines_languages.val])
                = join_language_lists(engines_languages)

\* the canonical codes (keys) of the language_aliases of an engine
AliasKeys(eng) ==
    IF HasAttr(eng, "language_aliases") THEN DOMAIN eng["language_aliases"].v ELSE {}

(***************************************************************************)
(* C14: for every engine and every key c of its language_aliases, the      *)
(* alias reversal of join_language_lists turns the engine's own code       *)
(* language_aliases[c] back into c.                                        *)
(***************************************************************************)
C14_AliasRoundTrip ==
    /\ \A engine_name \in DOMAIN engines :
          \A c \in AliasKeys(engines[engine_name]) :
              ReversedCodes(engines[engine_name],
                            engines[engine_name]["language_aliases"].v[c]) = {c}
    /\ \A r \in reversed :
          \A c \in AliasKeys(engines[r.engine]) :
              engines[r.engine]["language_aliases"].v[c] = r.alias => r.lang_code = c

(***************************************************************************)
(* C14 (amended): the alias reversal turns language_aliases[c] into a key  *)
(* of language_aliases whose value is that code, and into c itself when c  *)
(* is the only key with that value.                                        *)
(***************************************************************************)
C14_AliasReversedToAKey ==
    /\ \A engine_name \in DOMAIN engines :
          \A c \in AliasKeys(engines[engine_name]) :
              \E codes \in {ReversedCodes(engines[engine_name],
                                          engines[engine_name]["language_aliases"].v[c])} :
                  /\ c \in codes
                  /\ \A lc \in codes :
                        /\ lc \in AliasKeys(engines[engine_name])
                        /\ engines[engine_name]["language_aliases"].v[lc]
                              = engines[engine_name]["language_aliases"].v[c]
                  /\ (\A lc \in AliasKeys(engines[engine_name]) \ {c} :
                         engines[engine_name]["language_aliases"].v[lc]
                            # engines[engine_name]["language_aliases"].v[c])
                     => codes = {c}
    /\ \A r \in reversed :
          /\ r.lang_code \in AliasKeys(engines[r.engine])
          /\ engines[r.engine]["language_aliases"].v[r.lang_code] = r.alias

\* the join has reversed the code pt of engine g to pt-BR, the only key of
\* its language_aliases with that value
C14_Witness ==
    /\ apc = "done"
    /\ S("g") \in DOMAIN engines
    /\ engines[S("g")]["language_aliases"].v[Code2("pt", "BR")] = S("pt")
    /\ [engine |-> S("g"), alias |-> S("pt"), lang_code |-> Code2("pt", "BR")] \in reversed
    /\ Code2("pt", "BR") \in DOMAIN language_list[S("pt")].countries

\* a main adapter: category general, non-empty supported_languages, not disabled
IsMainAdapter(eng) ==
    /\ S("general") \in SeqToSet(eng["categories"].v)
    /\ HasAttr(eng, "supported_languages")
    /\ eng["supported_languages"] \notin {PyNone, PyList(<<>>), PyDict(<<>>)}
    /\ eng["disabled"] # PyBool(TRUE)
\* the state after the filter has chosen the languages
Filtered == apc \in {"filter", "done", "written"}
\* the state after the filter has chosen the codes
Emitted == apc \in {"done", "written"}

(***************************************************************************)
(* C15: a language of the joined table is kept by the filter if and only   *)
(* if at least min_engines_per_lang engines are in its counter or every    *)
(* main adapter is in its counter.                                         *)
(***************************************************************************)
C15_KeptIffCountOrMain ==
    Filtered =>
        /\ DOMAIN filtered_languages \subseteq DOMAIN language_list
        /\ \A code \in DOMAIN language_list :
              code \in DOMAIN filtered_languages
                  <=> \/ Cardinality(language_list[code].counter) >= min_engines_per_lang
                      \/ \A engine_name \in DOMAIN engines :
                            IsMainAdapter(engines[engine_name])
                                => engine_name \in language_list[code].counter

\* one main adapter m and twelve others: fr is kept by its count without m,
\* en is kept by m alone, it (seven engines, not m) is not kept
C15_Witness ==
    /\ apc = "filter"
    /\ S("m") \in DOMAIN engines
    /\ {S("fr"), S("en"), S("it")} \subseteq DOMAIN language_list
    /\ IsMainAdapter(engines[S("m")])
    /\ S("m") \notin language_list[S("fr")].counter
    /\ Cardinality(language_list[S("fr")].counter) = min_engines_per_lang
    /\ language_list[S("en")].counter = {S("m")}
    /\ Cardinality(language_list[S("it")].counter) = 7
    /\ S("fr") \in DOMAIN filtered_languages
    /\ S("en") \in DOMAIN filtered_languages
    /\ S("it") \notin DOMAIN filtered_languages

\* the thresholds tried in the place of min_engines_per_lang
MaxThreshold == 14
\* the sets of main adapters tried: the registry's own, none, every engine
MainSets == {main_engines, {}, DOMAIN engines}

(***************************************************************************)
(* C16: for the joined table and a set of main adapters, the languages     *)
(* kept with a higher min_engines_per_lang are among the languages kept    *)
(* with a lower one.                                                       *)
(***************************************************************************)
C16_KeptMonotoneInThreshold ==
    Filtered =>
        \A main \in MainSets :
            \A lower, higher \in 0..MaxThreshold :
                lower <= higher =>
                    DOMAIN FilteredLanguages(language_list, main, higher)
                        \subseteq DOMAIN FilteredLanguages(language_list, main, lower)

\* the filter has run with min_engines_per_lang, and one more engine asked
\* for would have dropped a language it kept
C16_Witness ==
    /\ apc = "filter"
    /\ filtered_languages = FilteredLanguages(language_list, main_engines, min_engines_per_lang)
    /\ DOMAIN FilteredLanguages(language_list, main_engines, min_engines_per_lang + 1)
           # DOMAIN filtered_languages
    /\ DOMAIN FilteredLanguages(language_list, main_engines, min_engines_per_lang + 1) # {}

\* the language part of a code: what stands before its first '-'
LanguagePart(code) == PyStr(<<code.v[1]>>)
\* the codes the filter has emitted for a language
EmittedFor(lang) ==
    {code \in DOMAIN filtered_languages_with_countries : LanguagePart(code) = lang}

(***************************************************************************)
(* C17: every language the filter keeps has at least one emitted code, and *)
(* every emitted code is the bare code of a kept language or a region code *)
(* whose language part is a kept language.                                 *)
(***************************************************************************)
C17_EmittedCodesOfKeptLanguages ==
    Emitted =>
        /\ \A lang \in DOMAIN filtered_languages : EmittedFor(lang) # {}
        /\ \A code \in DOMAIN filtered_languages_with_countries :
              /\ LanguagePart(code) \in DOMAIN filtered_languages
              /\ \/ code = LanguagePart(code)
                 \/ /\ Len(code.v) >= 3
                    /\ code.v[2] = "-"
        /\ \A lang \in DOMAIN language_list \ DOMAIN filtered_languages :
              EmittedFor(lang) = {}

\* the filter has dropped it and he and kept four languages; every kept
\* language has a code, the dropped ones have none
C17_Witness ==
    /\ apc = "done"
    /\ S("q") \in DOMAIN engines
    /\ {S("it"), S("he")} \subseteq DOMAIN language_list \ DOMAIN filtered_languages
    /\ DOMAIN filtered_languages = {S("de"), S("en"), S("jp"), S("fr")}
    /\ Cardinality(DOMAIN filtered_languages_with_countries) = 4
    /\ S("jp") \in DOMAIN filtered_languages_with_countries
    /\ Code2("en", "US") \in DOMAIN filtered_languages_with_countries

\* the fetched data of the scenario: three engines with the codes
\* {de, de-AT}, {de} and {de-DE}
GermanScenario ==
    /\ Len(engines_languages.keys) = 3
    /\ \E e1, e2, e3 \in SeqToSet(engines_languages.keys) :
          /\ SeqToSet(EngineCodes(engines_languages.val[e1])) = {S("de"), Code2("de", "AT")}
          /\ SeqToSet(EngineCodes(engines_languages.val[e2])) = {S("de")}
          /\ SeqToSet(EngineCodes(engines_languages.val[e3])) = {Code2("de", "DE")}
\* the one code the scenario expects for de
GermanCode ==
    IF S("de") \in DOMAIN likely_subtags THEN Code2("de", "DE") ELSE S("de")

(***************************************************************************)
(* C18: three engines report {de, de-AT}, {de} and {de-DE}.  The joined    *)
(* entry de counts three engines and each of its countries one; a filter   *)
(* that asks for two engines per language and two per country emits one    *)
(* code for de: de-DE when the likely subtags give de a region, else de.   *)
(* The filter as it runs, with min_engines_per_lang and                    *)
(* min_engines_per_country, emits the same code.                           *)
(***************************************************************************)
C18_GermanScenario ==
    (Filtered /\ GermanScenario) =>
        /\ Cardinality(language_list[S("de")].counter) = 3
        /\ DOMAIN language_list[S("de")].countries = {Code2("de", "AT"), Code2("de", "DE")}
        /\ \A country \in DOMAIN language_list[S("de")].countries :
              Cardinality(language_list[S("de")].countries[country].counter) = 1
        /\ S("de") \in DOMAIN FilteredLanguages(language_list, main_engines, 2)
        /\ DOMAIN FilteredWithCountries(language_list,
                                        FilteredLanguages(language_list, main_engines, 2),
                                        2, likely_subtags) = {GermanCode}
        /\ Emitted => DOMAIN filtered_languages_with_countries = {GermanCode}

\* the scenario has run to its end with a likely region for de
C18_Witness ==
    /\ apc = "done"
    /\ GermanScenario
    /\ likely_subtags[S("de")] = <<"de", "Latn", "DE">>
    /\ DOMAIN filtered_languages_with_countries = {Code2("de", "DE")}

\* the country variants of a language of the joined table that at least
\* min_engines_per_country engines support
VariantsWithCoverage(lang) ==
    {country \in DOMAIN language_list[lang].countries :
        Cardinality(language_list[lang].countries[country].counter)
            >= min_engines_per_country}
\* the likely subtags give the language a region of two letters
HasLikelyRegion(lang) ==
    /\ lang \in DOMAIN likely_subtags
    /\ Len(likely_subtags[lang][Len(likely_subtags[lang])]) = 2
LikelyRegionCode(lang) ==
    PyStr(<<lang.v[1], "-", likely_subtags[lang][Len(likely_subtags[lang])]>>)

(***************************************************************************)
(* C19: the codes emitted for a kept language follow from the number k of  *)
(* its country variants that min_engines_per_country engines support:      *)
(* k > 1 gives those variants and the bare code, k = 1 that variant alone, *)
(* k = 0 one code, the likely-region code when the likely subtags give the *)
(* language a region of two letters and the bare code when they do not.    *)
(***************************************************************************)
C19_EmittedCodesByVariants ==
    Emitted =>
        \A lang \in DOMAIN filtered_languages :
            \E variants \in {VariantsWithCoverage(lang)} :
                /\ Cardinality(variants) > 1 => EmittedFor(lang) = variants \cup {lang}
                /\ Cardinality(variants) = 1 =>
                      /\ EmittedFor(lang) = variants
                      /\ lang \notin EmittedFor(lang)
                /\ (Cardinality(variants) = 0 /\ HasLikelyRegion(lang)) =>
                      EmittedFor(lang) = {LikelyRegionCode(lang)}
                /\ (Cardinality(variants) = 0 /\ ~HasLikelyRegion(lang)) =>
                      EmittedFor(lang) = {lang}

\* fr has two variants with coverage, es one, en none and a likely region,
\* eo none and the likely region 001
C19_Witness ==
    /\ apc = "done"
    /\ DOMAIN filtered_languages = {S("en"), S("eo"), S("es"), S("fr")}
    /\ VariantsWithCoverage(S("fr")) = {Code2("fr", "FR"), Code2("fr", "CA")}
    /\ EmittedFor(S("fr")) = {S("fr"), Code2("fr", "FR"), Code2("fr", "CA")}
    /\ VariantsWithCoverage(S("es")) = {Code2("es", "ES")}
    /\ EmittedFor(S("es")) = {Code2("es", "ES")}
    /\ VariantsWithCoverage(S("en")) = {}
    /\ EmittedFor(S("en")) = {Code2("en", "US")}
    /\ VariantsWithCoverage(S("eo")) = {}
    /\ likely_subtags[S("eo")] = <<"eo", "Latn", "001">>
    /\ EmittedFor(S("eo")) = {S("eo")}

\* the engine exposes the structured / the legacy fetch function
HasStructured(eng) == "_fetch_engine_properties" \in DOMAIN eng /\ eng["_fetch_engine_properties"] # PyNone
HasLegacy(eng) == "_fetch_supported_languages" \in DOMAIN eng /\ eng["_fetch_supported_languages"] # PyNone
\* every engine in a counter of the joined table
CountedEngines ==
    UNION {language_list[lang].counter : lang \in DOMAIN language_list}
    \cup UNION {UNION {language_list[lang].countries[country].counter :
                          country \in DOMAIN language_list[lang].countries} :
                   lang \in DOMAIN language_list}

(***************************************************************************)
(* C20: the script fetches the engines in the sorted order of their names; *)
(* it calls _fetch_engine_properties of an engine that has it, also when   *)
(* the engine has _fetch_supported_languages too, and calls                *)
(* _fetch_supported_languages only of an engine without the first; an      *)
(* engine with neither is not fetched, has no entry in engines_languages   *)
(* and is in no counter.                                                   *)
(***************************************************************************)
C20_SortedOrderStructuredFirst ==
    /\ \A i, j \in 1..Len(fetch_log) :
          i < j => StrLess(fetch_log[i][1], fetch_log[j][1])
    /\ \A i, j \in 1..Len(engines_languages.keys) :
          i < j => StrLess(engines_languages.keys[i], engines_languages.keys[j])
    /\ \A i \in 1..Len(fetch_log) :
          \E eng \in {engines[fetch_log[i][1]]} :
             /\ HasStructured(eng) => fetch_log[i][2] = "_fetch_engine_properties"
             /\ (~HasStructured(eng) /\ HasLegacy(eng))
                    => fetch_log[i][2] = "_fetch_supported_languages"
             /\ HasStructured(eng) \/ HasLegacy(eng)
    /\ \A engine_name \in DOMAIN engines_languages.val :
          /\ HasStructured(engines[engine_name]) \/ HasLegacy(engines[engine_name])
          /\ HasStructured(engines[engine_name]) =>
                engines_languages.val[engine_name]
                    = engines[engine_name]["_fetch_engine_properties"].v
          /\ \E i \in 1..Len(fetch_log) : fetch_log[i][1] = engine_name
    /\ apc \in {"join", "join raised", "filter", "done", "written"} =>
          /\ DOMAIN engines_languages.val =
                {engine_name \in DOMAIN engines :
                    HasStructured(engines[engine_name]) \/ HasLegacy(engines[engine_name])}
          /\ CountedEngines \subseteq DOMAIN engines_languages.val

\* the registry with each combination of fetch functions has been fetched
\* and joined: p (both) and s by the structured function, q, u and wikipedia
\* by the legacy one, r (neither) not at all
C20_Witness ==
    /\ apc = "done"
    /\ fetch_log = << <<S("p"), "_fetch_engine_properties">>,
                      <<S("q"), "_fetch_supported_languages">>,
                      <<S("s"), "_fetch_engine_properties">>,
                      <<S("u"), "_fetch_supported_languages">>,
                      <<S("wikipedia"), "_fetch_supported_languages">> >>
    /\ HasStructured(engines[S("p")]) /\ HasLegacy(engines[S("p")])
    /\ S("r") \in DOMAIN engines
    /\ ~HasStructured(engines[S("r")]) /\ ~HasLegacy(engines[S("r")])
    /\ S("r") \notin DOMAIN engines_languages.val
    /\ S("r") \notin CountedEngines
    /\ S("p") \in CountedEngines

\* the namespace of a configuration after the merge and the language step,
\* before the rewrite for the proxy
BeforeTor(engine_data) == set_language_attributes(MergedOf(engine_data).engine).engine
\* the proxy is declared by the deployment or by the adapter, and the adapter
\* has an onion_url
RoutedWithOnionUrl(eng) ==
    /\ \/ settings["using_tor_proxy"] = PyBool(TRUE)
       \/ ("using_tor_proxy" \in DOMAIN eng /\ eng["using_tor_proxy"] = PyBool(TRUE))
    /\ "onion_url" \in DOMAIN eng

(***************************************************************************)
(* C21: after any number of loads of a configuration, a registered adapter *)
(* that is routed over the proxy and has an onion_url has the search URL   *)
(* onion_url + search_path and the timeout of its merged namespace plus    *)
(* extra_proxy_timeout, added once; every other registered adapter has the *)
(* search URL and the timeout of its merged namespace.                     *)
(***************************************************************************)
C21_TorRewriteOncePerLoad ==
    (pc = "idle" /\ nloads >= 1) =>
        \A k \in Positions :
            (Loadable(ConfigAt(k)) /\ ConfigAt(k)["name"] \in DOMAIN engines) =>
                \E before \in {BeforeTor(ConfigAt(k))} :
                \E eng \in {engines[ConfigAt(k)["name"]]} :
                    IF RoutedWithOnionUrl(before)
                    THEN /\ eng["search_url"]
                              = PyStr(before["onion_url"].v
                                      \o (IF "search_path" \in DOMAIN before
                                          THEN before["search_path"].v ELSE <<>>))
                         /\ eng["timeout"]
                              = PyNum(before["timeout"].v + settings["extra_proxy_timeout"].v)
                    ELSE /\ eng["timeout"] = before["timeout"]
                         /\ ("search_url" \in DOMAIN eng <=> "search_url" \in DOMAIN before)
                         /\ "search_url" \in DOMAIN eng =>
                                eng["search_url"] = before["search_url"]

\* the second load of an images adapter and an onion adapter in a deployment
\* that uses the proxy: the onion adapter has its onion URL and 3 + 10
\* seconds, the images adapter its own 5 seconds
C21_Witness ==
    /\ pc = "idle"
    /\ nloads = 2
    /\ engine_list = <<5, 6>>
    /\ settings["using_tor_proxy"] = PyBool(TRUE)
    /\ DOMAIN engines = {Name1("d"), Name1("o")}
    /\ engines[Name1("o")]["search_url"] = PyStr(<<"http://x.onion", "/q">>)
    /\ engines[Name1("o")]["timeout"] = PyNum(request_timeout + extra_proxy_timeout)
    /\ engines[Name1("d")]["timeout"] = PyNum(5)
    /\ "search_url" \notin DOMAIN engines[Name1("d")]

\* babel knows no locale of the language: an entry with this key was made
\* for a code get_locale could not resolve
UnknownToBabel(lang) ==
    \A code \in DOMAIN KnownLocales : KnownLocales[code].language # lang.v[1]
\* the fetched data of the wikipedia adapter has the short code
InWikipedia(lang) ==
    /\ S("wikipedia") \in DOMAIN engines_languages.val
    /\ lang \in DOMAIN engines_languages.val[S("wikipedia")].v
\* the names of an entry made for an unresolved code are as described
UnresolvedNamesAsDescribed ==
    \A lang \in DOMAIN language_list :
        UnknownToBabel(lang) =>
            IF InWikipedia(lang)
            THEN /\ language_list[lang].name
                      = engines_languages.val[S("wikipedia")].v[lang].v["name"]
                 /\ language_list[lang].english_name
                      = engines_languages.val[S("wikipedia")].v[lang].v["english_name"]
            ELSE /\ language_list[lang].name = PyNone
                 /\ language_list[lang].english_name = PyNone
\* the codes written are the emitted codes with a name, in ascending order
WrittenAsDescribed ==
    apc = "written" =>
        /\ {language_codes[i][1] : i \in 1..Len(language_codes)}
               = {code \in DOMAIN filtered_languages_with_countries :
                     filtered_languages_with_countries[code].name # PyNone}
        /\ \A i, j \in 1..Len(language_codes) :
               i < j => StrLess(language_codes[i][1], language_codes[j][1])

(***************************************************************************)
(* C22: an entry made for a code babel cannot resolve takes its names from *)
(* the wikipedia data when the short code is there and has both names None *)
(* otherwise, and the join goes on; write_languages_file leaves out every  *)
(* entry whose name is None and writes every other one, in ascending order *)
(* of the codes.                                                           *)
(***************************************************************************)
C22_UnresolvedNamesAndWrite ==
    /\ apc # "join raised"
    /\ UnresolvedNamesAsDescribed
    /\ WrittenAsDescribed

\* the adapter has legacy (flat) language data
HasLegacyLanguages(eng) ==
    "supported_languages" \in DOMAIN eng /\ eng["supported_languages"].t = "list"
\* the match of a native code exists, differs from it, is not a prefix of it
\* and is not a supported code
AliasConditions(native, supported) ==
    \E iso \in {match_language(native, BABEL_LANGS)} :
        /\ iso # PyNone
        /\ iso # native
        /\ ~(Len(iso.v) <= Len(native.v) /\ SubSeq(native.v, 1, Len(iso.v)) = iso.v)
        /\ \A i \in 1..Len(supported) : supported[i] # iso
\* language_aliases of the adapter maps the match of the native code to it
AliasRecorded(eng, native) ==
    \E iso \in {match_language(native, BABEL_LANGS)} :
        /\ iso \in DOMAIN eng["language_aliases"].v
        /\ eng["language_aliases"].v[iso] = native
\* a configuration of an otherwise valid adapter whose legacy data has a code
\* without a match
UnmatchedCodes(eng) ==
    {eng["supported_languages"].v[i] : i \in 1..Len(eng["supported_languages"].v)}
        \cap {native \in {eng["supported_languages"].v[i] :
                             i \in 1..Len(eng["supported_languages"].v)} :
                 match_language(native, BABEL_LANGS) = PyNone}
LoadsWithUnmatched(engine_data) ==
    /\ Loadable(engine_data)
    /\ HasLegacyLanguages(CheckedOf(engine_data))
    /\ UnmatchedCodes(CheckedOf(engine_data)) # {}
\* an adapter with an unmatched code is registered, and no alias maps to
\* that code
UnmatchedStillLoaded ==
    pc = "idle" =>
        \A k \in Positions :
            LoadsWithUnmatched(ConfigAt(k)) =>
                /\ ConfigAt(k)["name"] \in DOMAIN engines
                /\ \A native \in UnmatchedCodes(engines[ConfigAt(k)["name"]]) :
                      \A iso \in DOMAIN engines[ConfigAt(k)["name"]]["language_aliases"].v :
                          engines[ConfigAt(k)["name"]]["language_aliases"].v[iso] # native

(***************************************************************************)
(* C23: for a registered adapter with legacy language data, language_      *)
(* aliases maps canonical -> native for a supported native code exactly    *)
(* when the match of the native code exists, differs from it, is not a     *)
(* prefix of it and is not a supported code; an adapter with a code that   *)
(* has no match is loaded all the same, without an alias for that code.    *)
(***************************************************************************)
C23_AliasExactlyWhenMatched ==
    /\ \A name \in DOMAIN engines :
          HasLegacyLanguages(engines[name]) =>
              \A i \in 1..Len(engines[name]["supported_languages"].v) :
                  AliasConditions(engines[name]["supported_languages"].v[i],
                                  engines[name]["supported_languages"].v)
                      <=> AliasRecorded(engines[name],
                                        engines[name]["supported_languages"].v[i])
    /\ UnmatchedStillLoaded

(***************************************************************************)
(* C23 amended: the entry canonical -> native is there exactly when the    *)
(* conditions hold for the native code and for no later supported code     *)
(* with the same match: a later code takes the entry of an earlier one.    *)
(***************************************************************************)
C23_AliasOfLastMatched ==
    /\ \A name \in DOMAIN engines :
          HasLegacyLanguages(engines[name]) =>
              \E supported \in {engines[name]["supported_languages"].v} :
                  \A i \in 1..Len(supported) :
                      (/\ AliasConditions(supported[i], supported)
                       /\ \A j \in (i + 1)..Len(supported) :
                             AliasConditions(supported[j], supported) =>
                                 match_language(supported[j], BABEL_LANGS)
                                     # match_language(supported[i], BABEL_LANGS))
                          <=> AliasRecorded(engines[name], supported[i])
    /\ UnmatchedStillLoaded

\* two adapters with legacy data are registered: g with the alias pt-BR -> pt
\* and the unmatched code jp, v with pt-BR -> pt-PT that took the place of
\* pt-BR -> pt
C23_Witness ==
    /\ pc = "idle"
    /\ engine_list = <<17, 19>>
    /\ DOMAIN engines = {Name1("g"), Name1("v")}
    /\ engines[Name1("g")]["language_aliases"] = PyDict(Code2("pt", "BR") :> Code1("pt"))
    /\ Code1("jp") \in UnmatchedCodes(engines[Name1("g")])
    /\ engines[Name1("v")]["supported_languages"]
           = PyList(<<Code1("pt"), Code2("pt", "PT"), Code1("de")>>)
    /\ engines[Name1("v")]["language_aliases"]
           = PyDict(Code2("pt", "BR") :> Code2("pt", "PT"))

(***************************************************************************)
(* C24: in every state of the joined table a country code differs from its *)
(* short form and stands under the entry of its language part; the counter *)
(* of a country is a subset of the counter of its language; no counter of  *)
(* a language or of a country is empty.                                    *)
(***************************************************************************)
C24_TableWellFormed ==
    \A lang \in DOMAIN language_list :
        /\ language_list[lang].counter # {}
        /\ language_list[lang].counter \subseteq DOMAIN engines
        /\ \A country \in DOMAIN language_list[lang].countries :
              /\ country # LanguagePart(country)
              /\ LanguagePart(country) = lang
              /\ language_list[lang].countries[country].counter # {}
              /\ language_list[lang].countries[country].counter
                     \subseteq language_list[lang].counter

\* the join of the three German adapters is half done: de counts x and y,
\* its country de-AT counts x
C24_Witness ==
    /\ apc = "join"
    /\ DOMAIN language_list = {S("de")}
    /\ language_list[S("de")].counter = {S("x"), S("y")}
    /\ DOMAIN language_list[S("de")].countries = {Code2("de", "AT")}
    /\ language_list[S("de")].countries[Code2("de", "AT")].counter = {S("x")}

\* the adapters in the list of a category (none for a category without list)
ListedUnder(c) ==
    IF c \in DOMAIN categories THEN {categories[c][i] : i \in 1..Len(categories[c])} ELSE {}
\* the categories of an adapter
CategoriesOf(eng) == {eng["categories"].v[i] : i \in 1..Len(eng["categories"].v)}

(***************************************************************************)
(* C25: after a load_engines that ran to its end the three tables agree:   *)
(* engine_shortcuts maps the shortcut of each registered adapter to its    *)
(* name and has one entry per adapter; every element of a category list is *)
(* a registered adapter; an adapter is in the list of a category exactly   *)
(* when the category is one of its categories; every category other than   *)
(* "general" has a non-empty list.                                         *)
(***************************************************************************)
C25_TablesConsistent ==
    (pc = "idle" /\ nloads >= 1) =>
        /\ \A name \in DOMAIN engines : engines[name]["name"] = name
        /\ DOMAIN engine_shortcuts = {engines[name]["shortcut"] : name \in DOMAIN engines}
        /\ \A name \in DOMAIN engines : engine_shortcuts[engines[name]["shortcut"]] = name
        /\ Cardinality(DOMAIN engine_shortcuts) = Cardinality(DOMAIN engines)
        /\ \A c \in DOMAIN categories :
              \A eng \in ListedUnder(c) :
                  eng["name"] \in DOMAIN engines /\ engines[eng["name"]] = eng
        /\ \A name \in DOMAIN engines :
              \A c \in DOMAIN categories \cup CategoriesOf(engines[name]) :
                  engines[name] \in ListedUnder(c) <=> c \in CategoriesOf(engines[name])
        /\ \A c \in DOMAIN categories \ {S("general")} : categories[c] # <<>>
        /\ S("general") \in DOMAIN categories

\* a completed load of an adapter of the categories foo, bar and other and
\* one of general and web
C25_Witness ==
    /\ pc = "idle"
    /\ nloads >= 1
    /\ engine_list = <<4, 18>>
    /\ DOMAIN engines = {Name1("c"), Name1("w")}
    /\ DOMAIN engine_shortcuts = {S("-"), S("w")}
    /\ DOMAIN categories = {S("general"), S("web"), S("foo"), S("bar"), S("other")}
    /\ ListedUnder(S("general")) = {engines[Name1("w")]}
    /\ ListedUnder(S("bar")) = {engines[Name1("c")]}

\* a configuration dictionary without the key shortcut
OmitsShortcut(engine_data) == "shortcut" \notin DOMAIN engine_data
\* the names under which the Registry tbl holds an adapter of the default shortcut
WithDefaultShortcut(tbl) ==
    {name \in DOMAIN tbl : tbl[name]["shortcut"] = ENGINE_DEFAULT_ARGS["shortcut"]}

(***************************************************************************)
(* C26: an adapter whose configuration has no shortcut gets the default    *)
(* shortcut "-"; the registration of a second such adapter exits with      *)
(* "ambiguous shortcut"; and at no moment do the adapters by name hold     *)
(* more than one adapter of shortcut "-".                                  *)
(***************************************************************************)
C26_DefaultShortcutAtMostOnce ==
    [][/\ (pc = "register" /\ OmitsShortcut(EngineConfigs[engine_list[idx]])) =>
              engine["shortcut"] = S("-")
       /\ (pc = "register" /\ engine["shortcut"] = S("-")
              /\ WithDefaultShortcut(engines) # {}) =>
              pc' = "exit" /\ logged' = "ambiguous shortcut"
       /\ Cardinality(WithDefaultShortcut(engines')) <= 1]_vars

=============================================================================
